---- MODULE Spec2Model ----
(***************************************************************************)
(* Model of the shockpkg core package manager: the install pipeline of    *)
(* Manager (src/src/manager.ts), the package tree node (package.ts), the  *)
(* stream primitives (stream.ts) and the catalog refresh Manager.update.  *)
(*                                                                         *)
(* Bytes are small naturals.  sha256 is modelled by an injective running  *)
(* fold over the bytes, and raw-deflate by a toy run-length codec with an *)
(* end-of-stream marker: a stream is (count, byte)* followed by a 0; what *)
(* follows the marker is ignored and a stream that ends before its marker *)
(* is an error, as with zlib's inflateRaw.                                 *)
(***************************************************************************)
EXTENDS Integers, Sequences, FiniteSets, TLC

VARIABLES
    fs,            \* the directory tree under the root path: path -> entry
    loaded,        \* Packages._packagesList: 0 = unloaded, else catalog id
    pc,            \* position of the running call ("idle" when none)
    pkg,           \* the package the running install() targets
    packages,      \* install(): the local `packages` (root to target)
    slice,         \* install(): the local `slice` (<<>> is null)
    transforms,    \* install(): the local `transforms` with their state
    input,         \* bytes of the response body not yet delivered
    bytesWritten,  \* output.bytesWritten of the WriterStream
    hash,          \* running digest fed by lastData's 'data' events
    fdOpen,        \* the temp file handle is open
    err,           \* "" or the step at which the running call failed
    events,        \* notifications dispatched by the current/last call
    net,           \* transport invocations of the current/last call
    status,        \* outcome of the last call
    ret,           \* value returned by the last install()
    fs0,           \* the directory tree when the current/last call started
    chain,         \* pipeline study: root and the nodes below it, root first
    rootBytes,     \* pipeline study: the root resource
    ppc,           \* pipeline study: position
    pslice,        \* pipeline study: the range requested of the root
    ptransforms,   \* pipeline study: the transforms with their state
    pinput,        \* pipeline study: bytes of the body not yet delivered
    written,       \* pipeline study: bytes written to the temp file
    pushed,        \* slice study: the chunks the SliceStream passed on
    cat,           \* the Packages object: list, traversal set, five indices
    cat0,          \* the Packages object when the current/last call started
    cin,           \* the data the last update()/read() of Packages was given
    cstatus,       \* the last update()/read()/readIfExists(): its error, or
                   \* "", and what it returned
    creport,       \* the report the last update() returned
    cquery,        \* last getZipped* query: the node and the three results
    trav,          \* one packages() generator: captured set and position
    mcall,         \* the running/last query or removal of Manager: the
                   \* method and its argument
    mpc,           \* position of that call
    todo,          \* cleanup()/upgrade(): entries the loop has yet to visit
    mlist,         \* cleanup()/upgrade(): the local `list`
    mres,          \* what that call threw, or "", and what it returned
    again,         \* that call repeats the one that returned just before
    calls,         \* two install() calls in flight: the locals of each
    inodes         \* two install() calls in flight: the bytes of each file
                   \* they opened, whatever path now names it

vars == <<fs, loaded, pc, pkg, packages, slice, transforms, input,
          bytesWritten, hash, fdOpen, err, events, net, status, ret, fs0,
          chain, rootBytes, ppc, pslice, ptransforms, pinput, written,
          pushed, cat, cat0, cin, cstatus, creport, cquery, trav,
          mcall, mpc, todo, mlist, mres, again, calls, inodes>>

catVars == <<cat, cat0, cin, cstatus, creport, cquery, trav>>

installVars == <<fs, loaded, pc, pkg, packages, slice, transforms, input,
                 bytesWritten, hash, fdOpen, err, events, net, status, ret,
                 fs0>>

pipeVars ==
    <<chain, rootBytes, ppc, pslice, ptransforms, pinput, written, pushed>>

localVars == <<mcall, mpc, todo, mlist, mres, again>>

duoVars == <<calls, inodes>>

-----------------------------------------------------------------------------
(* Bounds *)

\* Largest chunk the transport body or a transform hands on in one piece.
MaxChunk == 2

\* Pipeline study: number of nodes below the root.
MaxDepth == 2

\* Pipeline study: length of the root resource.
MaxRootLen == 3

\* Pipeline study: largest offset / length in a zipped descriptor.
MaxOff == 1

MaxLen == 3

\* Slice study: largest start and largest size of a SliceStream.
MaxStart == 3

MaxSize == 3

\* Catalog study: number of entries in a catalog.
MaxNodes == 3

\* Catalog study: largest integer component of a format string.
MaxVersion == 3

-----------------------------------------------------------------------------
(* Constants of the program *)

META_DIR == ".shockpkg"

PACKAGE_FILE == "package.json"

PACKAGES_FILE == "packages.json"

TEMP_DIR == "tmp"

TEMP_EXT == ".tmp"

PACKAGES_URL == "/packages.json"

\* Values a byte takes in the model.
Bytes == 0 .. 2

HashBase == Cardinality(Bytes) + 1

-----------------------------------------------------------------------------
(* Generic helpers *)

Min(a, b) == IF a < b THEN a ELSE b

IsPrefix(p, q) == Len(p) <= Len(q) /\ SubSeq(q, 1, Len(p)) = p

Reverse(s) == [i \in 1 .. Len(s) |-> s[Len(s) + 1 - i]]

\* Variant: the chunk is taken from its first byte.
Subarray_FromZero(c, a, b) == SubSeq(c, 1, Min(b, Len(c)))

\* Buffer.subarray(a, b) with 0-based a, exclusive b, clipped like Node does.
Subarray(c, a, b) == SubSeq(c, Min(a, Len(c)) + 1, Min(b, Len(c)))

RECURSIVE HashUpdate(_, _)
\* hash.update(data): fold the chunk into the running digest.
HashUpdate(h, c) ==
    IF c = <<>> THEN h
    ELSE HashUpdate(h * HashBase + (Head(c) + 1), Tail(c))

\* createHash('sha256') ... digest('hex') of a whole buffer.
Sha256(b) == HashUpdate(0, b)

-----------------------------------------------------------------------------
(* Stream primitives (stream.ts) and decompressor *)

\* new SliceStream(start, size)
SliceStream(start, size) ==
    [kind |-> "slice", start |-> start, size |-> size, transformed |-> 0,
     pend |-> -1, ended |-> FALSE]

\* zlib.createInflateRaw(): pend is the run count read whose byte is still
\* to come (-1 when none), ended is set by the end-of-stream marker.
InflateRaw ==
    [kind |-> "inflate", start |-> 0, size |-> 0, transformed |-> 0,
     pend |-> -1, ended |-> FALSE]

\* SliceStream._transform: the new transform and the chunk pushed on.
SliceTransform(t, c) ==
    LET start == t.start
        size  == t.size
        n     == Len(c)
        i     == t.transformed - start
    IN  IF size = 0
        THEN [t |-> [t EXCEPT !.transformed = @ + n], out |-> <<>>]
        ELSE IF size < 0
        THEN IF i + n <= 0
             THEN [t |-> [t EXCEPT !.transformed = @ + n], out |-> <<>>]
             ELSE LET c2 == IF i < 0 THEN Subarray(c, -i, n) ELSE c
                      tr == IF i < 0 THEN t.transformed - i
                                     ELSE t.transformed
                  IN  [t |-> [t EXCEPT !.transformed = tr + Len(c2)],
                       out |-> c2]
        ELSE IF t.transformed >= start + size
        THEN [t |-> [t EXCEPT !.transformed = @ + n], out |-> <<>>]
        ELSE IF i + n <= 0
        THEN [t |-> [t EXCEPT !.transformed = @ + n], out |-> <<>>]
        ELSE LET c2 == IF i < 0 THEN Subarray(c, -i, n) ELSE c
                 tr == IF i < 0 THEN t.transformed - i ELSE t.transformed
                 i2 == IF i < 0 THEN 0 ELSE i
                 r  == size - i2
             IN  IF Len(c2) > r
                 THEN [t |-> [t EXCEPT !.transformed = tr + r + (Len(c2) - r)],
                       out |-> Subarray(c2, 0, r)]
                 ELSE [t |-> [t EXCEPT !.transformed = tr + Len(c2)],
                       out |-> c2]

RECURSIVE Repeat(_, _)
Repeat(b, n) == IF n <= 0 THEN <<>> ELSE <<b>> \o Repeat(b, n - 1)

RECURSIVE InflateTransform(_, _)
\* The inflate transform fed one chunk, byte by byte.
InflateTransform(t, c) ==
    IF c = <<>> \/ t.ended THEN [t |-> t, out |-> <<>>]
    ELSE IF t.pend = -1
    THEN IF Head(c) = 0
         THEN [t |-> [t EXCEPT !.ended = TRUE], out |-> <<>>]
         ELSE InflateTransform([t EXCEPT !.pend = Head(c)], Tail(c))
    ELSE LET rest == InflateTransform([t EXCEPT !.pend = -1], Tail(c))
         IN  [t |-> rest.t, out |-> Repeat(Head(c), t.pend) \o rest.out]

Transform(t, c) ==
    IF t.kind = "slice" THEN SliceTransform(t, c) ELSE InflateTransform(t, c)

RECURSIVE Pipe(_, _)
\* pipeline(input, ...transforms, output) for one chunk of input: the
\* transforms after the chunk went through, and what reaches the output.
Pipe(ts, c) ==
    IF ts = <<>> THEN [ts |-> <<>>, out |-> c]
    ELSE LET h == Transform(Head(ts), c)
             r == Pipe(Tail(ts), h.out)
         IN  [ts |-> <<h.t>> \o r.ts, out |-> r.out]

\* The end of the input reaches an inflate transform before its stream
\* ended: zlib reports "unexpected end of file" and the pipeline rejects.
FlushError(ts) ==
    \E i \in 1 .. Len(ts) : ts[i].kind = "inflate" /\ ~ts[i].ended

\* Sizes in which the next chunk of a body of n remaining bytes may arrive.
ChunkSizes(n) == 1 .. Min(MaxChunk, n)

-----------------------------------------------------------------------------
(* Package tree node (package.ts) *)

\* A node: zipped is <<>> for a root and <<method, offset, length>> (the
\* three '-' separated fields) for a child; parent is "" for a root.
Package(name, file, content, source, zipped, parent) ==
    [name |-> name, file |-> file, size |-> Len(content),
     sha256 |-> Sha256(content), source |-> source, zipped |-> zipped,
     parent |-> parent]

\* Package.getZippedCompression()
getZippedCompression(p) == p.zipped[1]

\* Variant: offset and length are taken in the wrong order.
getZippedSlice_Swapped(p) == <<p.zipped[3], p.zipped[2]>>

\* Package.getZippedSlice()
getZippedSlice(p) == <<p.zipped[2], p.zipped[3]>>

\* A variant that takes every method but 8 for "stored".
UnsupportedCompression_None(p) == FALSE

\* Package.getZippedDecompressor() throws on this node.
UnsupportedCompression(p) == getZippedCompression(p) \notin {0, 8}

\* Package.getZippedDecompressor(): <<>> is null, else the one transform.
getZippedDecompressor(p) ==
    IF getZippedCompression(p) = 8 THEN <<InflateRaw>> ELSE <<>>

-----------------------------------------------------------------------------
(* The server: root resources and the catalogs it publishes *)

\* Body of each root resource, by URL.
Resource(url) ==
    IF url = "/r1" THEN <<1, 0, 2, 1, 0>>
    ELSE IF url = "/d3" THEN <<2, 1>>
    ELSE <<>>

\* Catalog 1: root r holds the stored child s, which holds the deflated
\* leaf d.
Catalog1 ==
    << Package("r", "r.bin", <<1, 0, 2, 1, 0>>, "/r1", <<>>, ""),
       Package("s", "s.bin", <<0, 2, 1, 0>>, "r/s.bin", <<0, 1, 4>>, "r"),
       Package("d", "d.bin", <<1, 1>>, "s/d.bin", <<8, 1, 3>>, "s") >>

\* Catalog 2: d becomes an empty stored entry of s under its old file name.
Catalog2 ==
    << Package("r", "r.bin", <<1, 0, 2, 1, 0>>, "/r1", <<>>, ""),
       Package("s", "s.bin", <<0, 2, 1, 0>>, "r/s.bin", <<0, 1, 4>>, "r"),
       Package("d", "d.bin", <<>>, "s/d.bin", <<0, 1, 0>>, "s") >>

\* Catalog 3: d is republished as a root of its own under a new file name.
Catalog3 ==
    << Package("r", "r.bin", <<1, 0, 2, 1, 0>>, "/r1", <<>>, ""),
       Package("s", "s.bin", <<0, 2, 1, 0>>, "r/s.bin", <<0, 1, 4>>, "r"),
       Package("d", "d3.bin", <<2, 1>>, "/d3", <<>>, "") >>

Catalogs == <<Catalog1, Catalog2, Catalog3>>

CatalogIds == 1 .. Len(Catalogs)

Names == {"r", "s", "d"}

\* Packages the caller asks install() for.
Targets == {"d"}

\* Packages.byName / byUnique on the loaded catalog c (a name always hits).
byName(c, name) ==
    LET l == Catalogs[c]
    IN  l[CHOOSE i \in 1 .. Len(l) : l[i].name = name]

-----------------------------------------------------------------------------
(* The directory tree and the node:fs/promises calls used *)

Dir == [kind |-> "dir"]

File(data) == [kind |-> "file", data |-> data]

\* What a file holds that writeFile created and did not write to the end:
\* some beginning of the data.
Torn == [torn |-> TRUE]

Exists(f, p) == p \in DOMAIN f

IsFile(f, p) == Exists(f, p) /\ f[p].kind = "file"

IsDir(f, p) == Exists(f, p) /\ f[p].kind = "dir"

Parent(p) == SubSeq(p, 1, Len(p) - 1)

Prefixes(p) == {SubSeq(p, 1, n) : n \in 0 .. Len(p)}

Restrict(f, S) == [q \in S |-> f[q]]

\* rm(p, {recursive: true, force: true})
RmRecursive(f, p) == Restrict(f, {q \in DOMAIN f : ~IsPrefix(p, q)})

\* rm(p, {force: true}) rejects on a directory.
RmForceOk(f, p) == ~IsDir(f, p)

RmForce(f, p) == Restrict(f, DOMAIN f \ {p})

\* mkdir(p, {recursive: true}) rejects when a file is in the way.
MkdirOk(f, p) == \A q \in Prefixes(p) : ~IsFile(f, q)

Mkdir(f, p) == [q \in Prefixes(p) \ DOMAIN f |-> Dir] @@ f

\* open(p, 'wx') / writeFile(p, data, {flag: 'wx'}): exclusive creation.
CreateOk(f, p) == ~Exists(f, p) /\ IsDir(f, Parent(p))

Create(f, p, data) == [q \in {p} |-> File(data)] @@ f

\* rename(a, b) of a file.
RenameOk(f, a, b) == IsFile(f, a) /\ IsDir(f, Parent(b)) /\ ~IsDir(f, b)

Rename(f, a, b) ==
    [q \in (DOMAIN f \ {a}) \cup {b} |-> IF q = b THEN f[a] ELSE f[q]]

\* Manager.pathToPackage(name, ...parts)
pathToPackage(name, parts) == <<name>> \o parts

\* Manager.pathToPackageMeta(name, ...parts)
pathToPackageMeta(name, parts) == <<name, META_DIR>> \o parts

\* Path of the persisted catalog, Manager.pathToMeta(packagesFile).
packagesPath == <<META_DIR, PACKAGES_FILE>>

\* The four paths install() computes for package record p.
outFile(p) == pathToPackage(p.name, <<p.file>>)

tmpDir(p) == pathToPackageMeta(p.name, <<TEMP_DIR>>)

tmpFile(p) == tmpDir(p) \o <<ToString(p.sha256) \o TEMP_EXT>>

metaFile(p) == pathToPackageMeta(p.name, <<PACKAGE_FILE>>)

\* A variant that writes the receipt in place.
metaFileTmp_InPlace(p) == pathToPackageMeta(p.name, <<PACKAGE_FILE>>)

metaFileTmp(p) == pathToPackageMeta(p.name, <<PACKAGE_FILE \o TEMP_EXT>>)

\* Manager._packageMetaReceiptFromPackage
Receipt(p) ==
    [name |-> p.name, file |-> p.file, size |-> p.size,
     sha256 |-> p.sha256, source |-> p.source]

\* Manager.receipt(name) on tree f resolves: the receipt file is read and
\* JSON.parse takes it.
HasReceipt(f, name) ==
    /\ IsFile(f, pathToPackageMeta(name, <<PACKAGE_FILE>>))
    /\ "torn" \notin DOMAIN f[pathToPackageMeta(name, <<PACKAGE_FILE>>)].data

\* Manager.receipt(name): the parsed receipt.
ReadReceipt(f, name) == f[pathToPackageMeta(name, <<PACKAGE_FILE>>)].data

\* Variant: the source is compared too.
isCurrent_WithSource(f, p) ==
    /\ HasReceipt(f, p.name)
    /\ LET data == ReadReceipt(f, p.name)
       IN  /\ data.sha256 = p.sha256
           /\ data.size = p.size
           /\ data.file = p.file
           /\ data.name = p.name
           /\ data.source = p.source

\* Manager.isCurrent(p) on tree f.
isCurrent(f, p) ==
    /\ HasReceipt(f, p.name)
    /\ LET data == ReadReceipt(f, p.name)
       IN  /\ data.sha256 = p.sha256
           /\ data.size = p.size
           /\ data.file = p.file
           /\ data.name = p.name

-----------------------------------------------------------------------------
(* install(): ancestor chain and transform chain *)

RECURSIVE Ancestors(_, _)
\* for (let p = pkg.parent; p; p = p.parent) packages.push(p)
Ancestors(c, p) ==
    IF p.parent = "" THEN <<>>
    ELSE <<byName(c, p.parent)>> \o Ancestors(c, byName(c, p.parent))

\* const packages = [pkg]; ...; packages.reverse()
AncestorChain(c, p) == Reverse(<<p>> \o Ancestors(c, p))

RECURSIVE SliceLoop(_, _, _)
\* First while loop: fold the slices into one range of the root resource
\* until a node brings a decompressor (i is the 1-based index of the next
\* node; the root is at index 1).
SliceLoop(pk, i, sl) ==
    IF i > Len(pk) THEN [slice |-> sl, transforms |-> <<>>, i |-> i]
    ELSE LET z   == getZippedSlice(pk[i])
             sl2 == IF sl # <<>> THEN <<sl[1] + z[1], z[2]>> ELSE z
             d   == getZippedDecompressor(pk[i])
         IN  IF d # <<>>
             THEN [slice |-> sl2, transforms |-> d, i |-> i + 1]
             ELSE SliceLoop(pk, i + 1, sl2)

RECURSIVE TransformLoop(_, _)
\* Second while loop: a SliceStream and, if any, a decompressor per node.
TransformLoop(pk, i) ==
    IF i > Len(pk) THEN <<>>
    ELSE LET z == getZippedSlice(pk[i])
         IN  <<SliceStream(z[1], z[2])>> \o getZippedDecompressor(pk[i])
                 \o TransformLoop(pk, i + 1)

\* Variant: no slice is folded into the range: the range is the one of the
\* root's child and every node below it gets its own filter.
Plan_RangePerNode(pk) ==
    IF Len(pk) = 1 THEN [slice |-> <<>>, transforms |-> <<>>]
    ELSE [slice |-> getZippedSlice(pk[2]),
          transforms |-> getZippedDecompressor(pk[2]) \o TransformLoop(pk, 3)]

\* The slice to request and the transforms to pipe it through.
Plan(pk) ==
    LET a == SliceLoop(pk, 2, <<>>)
    IN  [slice |-> a.slice,
         transforms |-> a.transforms \o TransformLoop(pk, a.i)]

-----------------------------------------------------------------------------
(* Notifications and transport *)

\* An event of one of the Dispatchers other than download progress.
Ev(which, p) == [which |-> which, package |-> p.name]

\* eventPackageDownloadProgress.trigger({package, total, amount})
Progress(p, amount) ==
    [which |-> "download-progress", package |-> p.name,
     total |-> p.size, amount |-> amount]

\* Variant: progress is notified for every chunk of the body, also when
\* nothing came out of the transforms.
WroteEvents_Always(p, n, out) == <<Progress(p, n)>>

\* WriterStream._write hands a chunk to the file and emits 'wrote' when it
\* is written; install() answers with a progress notification carrying
\* output.bytesWritten.  A transform that pushes nothing writes nothing.
WroteEvents(p, n, out) == IF out # <<>> THEN <<Progress(p, n)>> ELSE <<>>

\* Variant: the already-current branch announces an install first.
CurrentEvents_WithBefore(p) ==
    <<Ev("install-before", p), Ev("install-current", p)>>

\* Events of the already-current branch of install().
CurrentEvents(p) == <<Ev("install-current", p)>>

\* Variant: a rejected request is tried again twice.
retry_Twice(n) == n \in {1, 2}

\* retry(f): after `n` invocations of f that all rejected, f is invoked
\* again exactly when n = 1.
retry(n) == n = 1

\* Variant: any success status passes.
StatusOk_AnySuccess(expect, st) == st \in {200, 206}

\* status !== 206 / status !== 200 / status !== 200 (catalog)
StatusOk(expect, st) == st = expect

\* cl && +cl !== size; cl = -1 stands for an absent header.
ContentLengthOk(cl, size) == cl = -1 \/ cl = size

\* Variant: the request goes to the source of the target.
Request_OwnSource(pk, sl) ==
    [url |-> pk[Len(pk)].source,
     range |-> IF sl # <<>> THEN <<sl[1], sl[1] + sl[2] - 1>> ELSE <<>>]

\* The request install() makes: URL of the root and the Range header
\* bytes=first-last (<<>> when the request is not ranged).
Request(pk, sl) ==
    [url |-> pk[1].source,
     range |-> IF sl # <<>> THEN <<sl[1], sl[1] + sl[2] - 1>> ELSE <<>>]

ExpectStatus(sl) == IF sl # <<>> THEN 206 ELSE 200

ExpectLength(pk, sl) == IF sl # <<>> THEN sl[2] ELSE pk[1].size

\* What a faithful server sends for the request.
HonestBody(pk, sl) ==
    IF sl # <<>> THEN Subarray(Resource(pk[1].source), sl[1], sl[1] + sl[2])
    ELSE Resource(pk[1].source)

\* Bodies the transport may deliver: the faithful one, one cut short, one
\* with a byte too many, one with its first byte altered.
Bodies(h) ==
    {h, h \o <<2>>}
      \cup (IF h = <<>> THEN {}
            ELSE {SubSeq(h, 1, Len(h) - 1),
                  [h EXCEPT ![1] = (h[1] + 1) % Cardinality(Bytes)]})

Rejected(req) ==
    [url |-> req.url, range |-> req.range, result |-> "reject",
     status |-> 0, cl |-> -1]

Responded(req, st, cl) ==
    [url |-> req.url, range |-> req.range, result |-> "response",
     status |-> st, cl |-> cl]

NoPackage == Package("", "", <<>>, "", <<>>, "")

\* Catalog the call works with after ensureLoaded(): the one in memory,
\* else the persisted one (Packages.readIfExists), else 0.
EnsureLoaded(f, l) ==
    IF l # 0 THEN l
    ELSE IF IsFile(f, packagesPath) THEN f[packagesPath].data.id
    ELSE 0

-----------------------------------------------------------------------------
(* Manager.install *)

Callable == pc \in {"idle", "returned"}

\* Steps of install() inside the try block.
TrySteps ==
    {"stream", "dirsEnsure", "rmMeta", "rmOut", "renameTmp",
     "receiptRm", "receiptWrite", "receiptRename"}

\* Steps of install() between the first notification and the try block.
PreSteps == {"rmTmp", "mkdirTmp", "openTmp"}

\* A throw inside the try block: on to the finally block.
Throw(step) == pc' = "finally" /\ err' = step

\* install(): ensureLoaded fails, the catalog is not loaded.
InstallNotLoaded ==
    /\ Callable
    /\ EnsureLoaded(fs, loaded) = 0
    /\ pc' = "returned"
    /\ status' = "fail"
    /\ err' = "notLoaded"
    /\ events' = <<>>
    /\ net' = <<>>
    /\ ret' = <<>>
    /\ fs0' = fs
    /\ pkg' = NoPackage
    /\ packages' = <<>>
    /\ slice' = <<>>
    /\ transforms' = <<>>
    /\ input' = <<>>
    /\ bytesWritten' = 0
    /\ hash' = 0
    /\ UNCHANGED <<fs, loaded, fdOpen>>

\* install(): the current version is installed, skip.
InstallCurrent(name) ==
    /\ Callable
    /\ EnsureLoaded(fs, loaded) # 0
    /\ LET c == EnsureLoaded(fs, loaded)
           p == byName(c, name)
       IN  /\ isCurrent(fs, p)
           /\ loaded' = c
           /\ pkg' = p
           /\ events' = CurrentEvents(p)
    /\ pc' = "returned"
    /\ status' = "current"
    /\ err' = ""
    /\ net' = <<>>
    /\ ret' = <<>>
    /\ fs0' = fs
    /\ packages' = <<>>
    /\ slice' = <<>>
    /\ transforms' = <<>>
    /\ input' = <<>>
    /\ bytesWritten' = 0
    /\ hash' = 0
    /\ UNCHANGED <<fs, fdOpen>>

\* install() up to its first await after the install-before notification:
\* resolve, current check, ancestor chain, slice and transforms.
InstallStart(name) ==
    /\ Callable
    /\ EnsureLoaded(fs, loaded) # 0
    /\ LET c  == EnsureLoaded(fs, loaded)
           p  == byName(c, name)
           pk == AncestorChain(c, p)
       IN  /\ ~isCurrent(fs, p)
           /\ loaded' = c
           /\ pkg' = p
           /\ packages' = pk
           /\ slice' = Plan(pk).slice
           /\ transforms' = Plan(pk).transforms
           /\ events' = <<Ev("install-before", p)>>
    /\ pc' = "rmTmp"
    /\ status' = "running"
    /\ err' = ""
    /\ net' = <<>>
    /\ ret' = <<>>
    /\ fs0' = fs
    /\ input' = <<>>
    /\ bytesWritten' = 0
    /\ hash' = 0
    /\ UNCHANGED <<fs, fdOpen>>

\* await rm(tmpDir, {recursive: true, force: true})
RmTmp ==
    /\ pc = "rmTmp"
    /\ fs' = RmRecursive(fs, tmpDir(pkg))
    /\ pc' = "mkdirTmp"
    /\ UNCHANGED <<loaded, pkg, packages, slice, transforms, input,
                   bytesWritten, hash, fdOpen, err, events, net, status, ret,
                   fs0>>

\* await mkdir(tmpDir, {recursive: true})
MkdirTmp ==
    /\ pc = "mkdirTmp"
    /\ MkdirOk(fs, tmpDir(pkg))
    /\ fs' = Mkdir(fs, tmpDir(pkg))
    /\ pc' = "openTmp"
    /\ UNCHANGED <<loaded, pkg, packages, slice, transforms, input,
                   bytesWritten, hash, fdOpen, err, events, net, status, ret,
                   fs0>>

\* const fd = await open(tmpFile, 'wx'), then the synchronous start of the
\* try block: download-before and the first progress notification.
OpenTmp ==
    /\ pc = "openTmp"
    /\ CreateOk(fs, tmpFile(pkg))
    /\ fs' = Create(fs, tmpFile(pkg), <<>>)
    /\ fdOpen' = TRUE
    /\ events' = events \o <<Ev("download-before", pkg), Progress(pkg, 0)>>
    /\ pc' = "fetch"
    /\ UNCHANGED <<loaded, pkg, packages, slice, transforms, input,
                   bytesWritten, hash, err, net, status, ret, fs0>>

\* rm, mkdir or open rejects: install() throws before its try block.
PreStepFails ==
    /\ pc \in PreSteps
    /\ err' = pc
    /\ status' = "fail"
    /\ pc' = "returned"
    /\ UNCHANGED <<fs, loaded, pkg, packages, slice, transforms, input,
                   bytesWritten, hash, fdOpen, events, net, ret, fs0>>

\* size === 0: input = new EmptyStream(), no request.
FetchEmpty ==
    /\ pc = "fetch"
    /\ slice # <<>>
    /\ slice[2] = 0
    /\ input' = <<>>
    /\ pc' = "stream"
    /\ UNCHANGED <<fs, loaded, pkg, packages, slice, transforms,
                   bytesWritten, hash, fdOpen, err, events, net, status, ret,
                   fs0>>

NeedsRequest == IF slice = <<>> THEN TRUE ELSE slice[2] > 0

\* fetch(url, init) rejects: retried once, then the install fails.
FetchReject ==
    /\ pc = "fetch"
    /\ NeedsRequest
    /\ net' = Append(net, Rejected(Request(packages, slice)))
    /\ IF retry(Len(net'))
       THEN pc' = "fetch" /\ err' = err
       ELSE Throw("transport")
    /\ UNCHANGED <<fs, loaded, pkg, packages, slice, transforms, input,
                   bytesWritten, hash, fdOpen, events, status, ret, fs0>>

\* fetch(url, init) resolves: status and content-length checks, then the
\* body becomes the input of the pipeline.
FetchResponse ==
    /\ pc = "fetch"
    /\ NeedsRequest
    /\ \E st \in {200, 206, 404}, cl \in {-1, 0, 1} :
       \E body \in Bodies(HonestBody(packages, slice)) :
          LET len == ExpectLength(packages, slice)
              c   == IF cl = -1 THEN -1 ELSE len + cl
          IN  /\ ~StatusOk(ExpectStatus(slice), st)
                    => cl = -1 /\ body = HonestBody(packages, slice)
              /\ ~ContentLengthOk(c, len)
                    => body = HonestBody(packages, slice)
              /\ net' = Append(net,
                               Responded(Request(packages, slice), st, c))
              /\ IF ~StatusOk(ExpectStatus(slice), st)
                 THEN Throw("status") /\ input' = input
                 ELSE IF ~ContentLengthOk(c, len)
                 THEN Throw("content-length") /\ input' = input
                 ELSE input' = body /\ pc' = "stream" /\ err' = err
    /\ UNCHANGED <<fs, loaded, pkg, packages, slice, transforms,
                   bytesWritten, hash, fdOpen, events, status, ret, fs0>>

\* One chunk of the body goes through the transforms; what comes out is
\* hashed and written, and the write's 'wrote' event reports progress.
StreamChunk ==
    /\ pc = "stream"
    /\ input # <<>>
    /\ \E n \in ChunkSizes(Len(input)) :
          LET r   == Pipe(transforms, SubSeq(input, 1, n))
              tmp == tmpFile(pkg)
          IN  /\ input' = SubSeq(input, n + 1, Len(input))
              /\ transforms' = r.ts
              /\ hash' = HashUpdate(hash, r.out)
              /\ bytesWritten' = bytesWritten + Len(r.out)
              /\ fs' = IF IsFile(fs, tmp) /\ r.out # <<>>
                       THEN [fs EXCEPT ![tmp] = File(@.data \o r.out)]
                       ELSE fs
              /\ events' = events \o WroteEvents(pkg, bytesWritten', r.out)
    /\ UNCHANGED <<loaded, pc, pkg, packages, slice, fdOpen, err, net,
                   status, ret, fs0>>

\* Variant: the digest comparison is left out.
VerifyError_NoHash(n, hashed, p) == IF n # p.size THEN "size" ELSE ""

\* Variant: nothing is compared, every extract passes.
VerifyError_Never(n, hashed, p) == ""

\* output.bytesWritten !== pkg.size, hashed !== pkg.sha256
VerifyError(n, hashed, p) ==
    IF n # p.size THEN "size"
    ELSE IF hashed # p.sha256 THEN "hash"
    ELSE ""

\* The body ended: the pipeline settles, then extract size and hash are
\* verified and download-after is notified.
StreamEnd ==
    /\ pc = "stream"
    /\ input = <<>>
    /\ IF FlushError(transforms)
       THEN Throw("stream") /\ events' = events
       ELSE IF VerifyError(bytesWritten, hash, pkg) # ""
       THEN Throw(VerifyError(bytesWritten, hash, pkg)) /\ events' = events
       ELSE /\ events' = Append(events, Ev("download-after", pkg))
            /\ pc' = "dirsEnsure"
            /\ err' = err
    /\ UNCHANGED <<fs, loaded, pkg, packages, slice, transforms, input,
                   bytesWritten, hash, fdOpen, net, status, ret, fs0>>

\* await this._packageDirsEnsure(pkg)
DirsEnsure ==
    /\ pc = "dirsEnsure"
    /\ MkdirOk(fs, pathToPackageMeta(pkg.name, <<>>))
    /\ fs' = Mkdir(Mkdir(fs, pathToPackage(pkg.name, <<>>)),
                   pathToPackageMeta(pkg.name, <<>>))
    /\ pc' = "rmMeta"
    /\ UNCHANGED <<loaded, pkg, packages, slice, transforms, input,
                   bytesWritten, hash, fdOpen, err, events, net, status, ret,
                   fs0>>

\* Variant: the old receipt stays until the new one is renamed over it.
RmMeta_Keep ==
    /\ pc = "rmMeta"
    /\ fs' = fs
    /\ pc' = "rmOut"
    /\ UNCHANGED <<loaded, pkg, packages, slice, transforms, input,
                   bytesWritten, hash, fdOpen, err, events, net, status, ret,
                   fs0>>

\* await rm(metaFile, {force: true})
RmMeta ==
    /\ pc = "rmMeta"
    /\ RmForceOk(fs, metaFile(pkg))
    /\ fs' = RmForce(fs, metaFile(pkg))
    /\ pc' = "rmOut"
    /\ UNCHANGED <<loaded, pkg, packages, slice, transforms, input,
                   bytesWritten, hash, fdOpen, err, events, net, status, ret,
                   fs0>>

\* await rm(outFile, {force: true})
RmOut ==
    /\ pc = "rmOut"
    /\ RmForceOk(fs, outFile(pkg))
    /\ fs' = RmForce(fs, outFile(pkg))
    /\ pc' = "renameTmp"
    /\ UNCHANGED <<loaded, pkg, packages, slice, transforms, input,
                   bytesWritten, hash, fdOpen, err, events, net, status, ret,
                   fs0>>

\* await rename(tmpFile, outFile)
RenameTmp ==
    /\ pc = "renameTmp"
    /\ RenameOk(fs, tmpFile(pkg), outFile(pkg))
    /\ fs' = Rename(fs, tmpFile(pkg), outFile(pkg))
    /\ pc' = "receiptRm"
    /\ UNCHANGED <<loaded, pkg, packages, slice, transforms, input,
                   bytesWritten, hash, fdOpen, err, events, net, status, ret,
                   fs0>>

\* _packageMetaReceiptWrite: await rm(pkgfTmp, {force: true})
ReceiptRm ==
    /\ pc = "receiptRm"
    /\ RmForceOk(fs, metaFileTmp(pkg))
    /\ fs' = RmForce(fs, metaFileTmp(pkg))
    /\ pc' = "receiptWrite"
    /\ UNCHANGED <<loaded, pkg, packages, slice, transforms, input,
                   bytesWritten, hash, fdOpen, err, events, net, status, ret,
                   fs0>>

\* _packageMetaReceiptWrite: await writeFile(pkgfTmp, ..., {flag: 'wx'})
ReceiptWrite ==
    /\ pc = "receiptWrite"
    /\ CreateOk(fs, metaFileTmp(pkg))
    /\ fs' = Create(fs, metaFileTmp(pkg), Receipt(pkg))
    /\ pc' = "receiptRename"
    /\ UNCHANGED <<loaded, pkg, packages, slice, transforms, input,
                   bytesWritten, hash, fdOpen, err, events, net, status, ret,
                   fs0>>

\* _packageMetaReceiptWrite: await rename(pkgfTmp, pkgf); the try block
\* is left without an error.
ReceiptRename ==
    /\ pc = "receiptRename"
    /\ RenameOk(fs, metaFileTmp(pkg), metaFile(pkg))
    /\ fs' = Rename(fs, metaFileTmp(pkg), metaFile(pkg))
    /\ pc' = "finally"
    /\ UNCHANGED <<loaded, pkg, packages, slice, transforms, input,
                   bytesWritten, hash, fdOpen, err, events, net, status, ret,
                   fs0>>

\* A step inside the try block rejects (I/O error, the body stream breaks
\* off, a write fails): control passes to the finally block.
TryStepFails ==
    /\ pc \in TrySteps
    /\ Throw(pc)
    /\ UNCHANGED <<fs, loaded, pkg, packages, slice, transforms, input,
                   bytesWritten, hash, fdOpen, events, net, status, ret, fs0>>

\* Variant: only the target is returned.
Returned_TargetOnly(pk) == <<pk[Len(pk)].name>>

\* Names of the packages install() returns.
Returned(pk) == [i \in 1 .. Len(pk) |-> pk[i].name]

\* Variant: the finally block closes the file but keeps the temp directory.
Finally_KeepTmp ==
    /\ pc = "finally"
    /\ fdOpen' = FALSE
    /\ fs' = fs
    /\ pc' = "returned"
    /\ IF err = ""
       THEN /\ events' = Append(events, Ev("install-after", pkg))
            /\ status' = "ok"
            /\ ret' = Returned(packages)
       ELSE /\ events' = events
            /\ status' = "fail"
            /\ ret' = ret
    /\ UNCHANGED <<loaded, pkg, packages, slice, transforms, input,
                   bytesWritten, hash, err, net, fs0>>

\* Variant: install-after is notified in the finally block, error or not.
Finally_AlwaysAfter ==
    /\ pc = "finally"
    /\ fdOpen' = FALSE
    /\ fs' = RmRecursive(fs, tmpDir(pkg))
    /\ pc' = "returned"
    /\ events' = Append(events, Ev("install-after", pkg))
    /\ IF err = ""
       THEN status' = "ok" /\ ret' = Returned(packages)
       ELSE status' = "fail" /\ ret' = ret
    /\ UNCHANGED <<loaded, pkg, packages, slice, transforms, input,
                   bytesWritten, hash, err, net, fs0>>

\* finally: await fd.close(); await rm(tmpDir, ...); then the pending
\* error is rethrown, or install-after is notified and the processed list
\* returned.
Finally ==
    /\ pc = "finally"
    /\ fdOpen' = FALSE
    /\ fs' = RmRecursive(fs, tmpDir(pkg))
    /\ pc' = "returned"
    /\ IF err = ""
       THEN /\ events' = Append(events, Ev("install-after", pkg))
            /\ status' = "ok"
            /\ ret' = Returned(packages)
       ELSE /\ events' = events
            /\ status' = "fail"
            /\ ret' = ret
    /\ UNCHANGED <<loaded, pkg, packages, slice, transforms, input,
                   bytesWritten, hash, err, net, fs0>>

\* The process dies in the middle of a call: what is in memory is lost,
\* the directory tree stays as it is.
Dies ==
    /\ pc' = "returned"
    /\ status' = "crashed"
    /\ loaded' = 0
    /\ fdOpen' = FALSE
    /\ pkg' = NoPackage
    /\ packages' = <<>>
    /\ slice' = <<>>
    /\ transforms' = <<>>
    /\ input' = <<>>
    /\ bytesWritten' = 0
    /\ hash' = 0
    /\ err' = ""
    /\ events' = <<>>
    /\ net' = <<>>
    /\ ret' = <<>>
    /\ fs0' = fs

Crash == ~Callable /\ Dies /\ UNCHANGED fs

-----------------------------------------------------------------------------
(* Manager.update, Manager._requestPackages, Packages.write *)

packagesPathTmp == <<META_DIR, PACKAGES_FILE \o TEMP_EXT>>

\* The persisted catalog: the JSON text of catalog c.
CatalogFile(c) == [id |-> c]

\* update() is called.
UpdateStart ==
    /\ Callable
    /\ pc' = "uFetch"
    /\ status' = "running"
    /\ err' = ""
    /\ events' = <<>>
    /\ net' = <<>>
    /\ ret' = <<>>
    /\ fs0' = fs
    /\ pkg' = NoPackage
    /\ packages' = <<>>
    /\ slice' = <<>>
    /\ transforms' = <<>>
    /\ input' = <<>>
    /\ bytesWritten' = 0
    /\ hash' = 0
    /\ UNCHANGED <<fs, loaded, fdOpen>>

CatalogRequest == [url |-> PACKAGES_URL, range |-> <<>>]

\* _requestPackages: fetch rejects, retried once.
UpdateFetchReject ==
    /\ pc = "uFetch"
    /\ net' = Append(net, Rejected(CatalogRequest))
    /\ IF retry(Len(net'))
       THEN pc' = "uFetch" /\ err' = err /\ status' = status
       ELSE pc' = "returned" /\ err' = "transport" /\ status' = "fail"
    /\ UNCHANGED <<fs, loaded, pkg, packages, slice, transforms, input,
                   bytesWritten, hash, fdOpen, events, ret, fs0>>

\* _requestPackages: fetch resolves; the text is catalog `c`, or (0) a
\* text that does not validate.
UpdateFetchResponse ==
    /\ pc = "uFetch"
    /\ \E st \in {200, 404}, c \in {0} \cup CatalogIds :
          /\ ~StatusOk(200, st) => c = 0
          /\ net' = Append(net, Responded(CatalogRequest, st, -1))
          /\ IF ~StatusOk(200, st)
             THEN /\ pc' = "returned" /\ err' = "status" /\ status' = "fail"
                  /\ input' = input
             ELSE /\ pc' = "uApply" /\ err' = err /\ status' = status
                  /\ input' = <<c>>
    /\ UNCHANGED <<fs, loaded, pkg, packages, slice, transforms,
                   bytesWritten, hash, fdOpen, events, ret, fs0>>

\* Variant: an error of ensureLoad() ends update().
UpdateApply_LoadThrows ==
    /\ pc = "uApply"
    /\ IF loaded = 0 /\ IsFile(fs, packagesPath)
             /\ fs[packagesPath].data.id = 0
       THEN /\ loaded' = loaded
            /\ pc' = "returned" /\ err' = "load" /\ status' = "fail"
       ELSE IF input[1] = 0
       THEN /\ loaded' = EnsureLoaded(fs, loaded)
            /\ pc' = "returned" /\ err' = "validate" /\ status' = "fail"
       ELSE /\ loaded' = input[1]
            /\ pc' = "uMkdir" /\ err' = err /\ status' = status
    /\ UNCHANGED <<fs, pkg, packages, slice, transforms, input,
                   bytesWritten, hash, fdOpen, events, net, ret, fs0>>

\* update(): ensureLoad() with its errors ignored, then
\* this._packages.update(data), which throws on a text that does not
\* validate and else replaces the catalog in memory.
UpdateApply ==
    /\ pc = "uApply"
    /\ IF input[1] = 0
       THEN /\ loaded' = EnsureLoaded(fs, loaded)
            /\ pc' = "returned" /\ err' = "validate" /\ status' = "fail"
       ELSE /\ loaded' = input[1]
            /\ pc' = "uMkdir" /\ err' = err /\ status' = status
    /\ UNCHANGED <<fs, pkg, packages, slice, transforms, input,
                   bytesWritten, hash, fdOpen, events, net, ret, fs0>>

\* Packages.write: await mkdir(dirname(prt), {recursive: true})
WriteMkdir ==
    /\ pc = "uMkdir"
    /\ MkdirOk(fs, Parent(packagesPathTmp))
    /\ fs' = Mkdir(fs, Parent(packagesPathTmp))
    /\ pc' = "uRmTmp"
    /\ UNCHANGED <<loaded, pkg, packages, slice, transforms, input,
                   bytesWritten, hash, fdOpen, err, events, net, status, ret,
                   fs0>>

\* Packages.write: await rm(prt, {force: true})
WriteRmTmp ==
    /\ pc = "uRmTmp"
    /\ RmForceOk(fs, packagesPathTmp)
    /\ fs' = RmForce(fs, packagesPathTmp)
    /\ pc' = "uWriteTmp"
    /\ UNCHANGED <<loaded, pkg, packages, slice, transforms, input,
                   bytesWritten, hash, fdOpen, err, events, net, status, ret,
                   fs0>>

\* Packages.write: await writeFile(prt, ..., {flag: 'wx'})
WriteTmp ==
    /\ pc = "uWriteTmp"
    /\ CreateOk(fs, packagesPathTmp)
    /\ fs' = Create(fs, packagesPathTmp, CatalogFile(loaded))
    /\ pc' = "uRename"
    /\ UNCHANGED <<loaded, pkg, packages, slice, transforms, input,
                   bytesWritten, hash, fdOpen, err, events, net, status, ret,
                   fs0>>

\* Packages.write: await rename(prt, out); update() returns its report.
WriteRename ==
    /\ pc = "uRename"
    /\ RenameOk(fs, packagesPathTmp, packagesPath)
    /\ fs' = Rename(fs, packagesPathTmp, packagesPath)
    /\ pc' = "returned"
    /\ status' = "updated"
    /\ UNCHANGED <<loaded, pkg, packages, slice, transforms, input,
                   bytesWritten, hash, fdOpen, err, events, net, ret, fs0>>

-----------------------------------------------------------------------------
(* The process dies while the catalog or a receipt is persisted *)

\* The steps of Packages.write and of _packageMetaReceiptWrite.
PersistSteps ==
    {"uMkdir", "uRmTmp", "uWriteTmp", "uRename",
     "receiptRm", "receiptWrite", "receiptRename"}

\* The process dies between two steps.
CrashPersist ==
    /\ pc \in PersistSteps
    /\ Dies
    /\ UNCHANGED fs

\* The process dies inside writeFile(tmp, data, {flag: 'wx'}): the file
\* was created and not written to the end.
CrashInWrite ==
    /\ pc \in {"uWriteTmp", "receiptWrite"}
    /\ LET tmp == IF pc = "uWriteTmp" THEN packagesPathTmp
                  ELSE metaFileTmp(pkg)
       IN  /\ CreateOk(fs, tmp)
           /\ fs' = Create(fs, tmp, Torn)
    /\ Dies

-----------------------------------------------------------------------------
(* The catalog engine: Packages (packages.ts) and Package (package.ts) *)

\* A component of a format string as Number() reads it: an integer
\* literal, the empty string (which Number reads as 0), or other text
\* (which Number reads as NaN).
IntTok(n) == [kind |-> "int", v |-> n]

EmptyTok == [kind |-> "empty", v |-> 0]

TextTok == [kind |-> "text", v |-> 0]

\* Number(component)
Number(t) ==
    IF t.kind = "text" THEN [nan |-> TRUE, v |-> 0]
    ELSE [nan |-> FALSE, v |-> t.v]

\* a !== b and a < b on numbers: NaN differs from everything and is below
\* nothing.
NotSame(a, b) == a.nan \/ b.nan \/ a.v # b.v

Below(a, b) == ~a.nan /\ ~b.nan /\ a.v < b.v

\* Packages.FORMAT = '1.2', split on the dots.
FORMAT == <<IntTok(1), IntTok(2)>>

\* A variant that accepts the engine's own minor version only.
validateFormat_Exact(format) ==
    LET version == [i \in 1 .. Len(FORMAT) |-> Number(FORMAT[i])]
        parts   == [i \in 1 .. Len(format) |-> Number(format[i])]
    IN  IF Len(parts) # 2 THEN "value"
        ELSE IF NotSame(parts[1], version[1]) THEN "major"
        ELSE IF NotSame(parts[2], version[2]) THEN "minor"
        ELSE ""

\* Packages._validateFormat: "" or what is wrong with the format, a
\* sequence of dot separated components.
validateFormat(format) ==
    LET version == [i \in 1 .. Len(FORMAT) |-> Number(FORMAT[i])]
        parts   == [i \in 1 .. Len(format) |-> Number(format[i])]
    IN  IF Len(parts) # 2 THEN "value"
        ELSE IF NotSame(parts[1], version[1]) THEN "major"
        ELSE IF Below(parts[2], version[2]) THEN "minor"
        ELSE ""

\* Packages._castData after JSON.parse: the text is JSON of an object
\* with a string `format` and an array `packages`.
castData(data) == data.shape = "ok"

RECURSIVE Construct_AnyRoot(_, _)
\* A variant that lets a node without parent have a zipped value.
Construct_AnyRoot(info, id) ==
    LET parent == SubSeq(id, 1, Len(id) - 1)
        kids   == [j \in 1 .. Len(info.packages) |->
                      Construct_AnyRoot(info.packages[j], Append(id, j))]
    IN  IF parent # <<>> /\ info.zipped = <<>> THEN [ok |-> FALSE]
        ELSE IF \E j \in 1 .. Len(kids) : ~kids[j].ok THEN [ok |-> FALSE]
        ELSE [ok |-> TRUE,
              pkg |-> [id |-> id, name |-> info.name, file |-> info.file,
                       size |-> info.size, sha256 |-> info.sha256,
                       sha1 |-> info.sha1, md5 |-> info.md5,
                       source |-> info.source, zipped |-> info.zipped,
                       parent |-> parent,
                       packages |-> [j \in 1 .. Len(kids) |-> kids[j].pkg]]]

RECURSIVE Construct(_, _)
\* new Package(info, parent): the node and, below it, its children, each
\* constructed with the node as parent.  A node is identified by its
\* place in the forest (id); parent <<>> is null.  ok is FALSE when the
\* constructor of the node or of a node below it throws.
Construct(info, id) ==
    LET parent == SubSeq(id, 1, Len(id) - 1)
        kids   == [j \in 1 .. Len(info.packages) |->
                      Construct(info.packages[j], Append(id, j))]
    IN  IF parent # <<>> /\ info.zipped = <<>> THEN [ok |-> FALSE]
        ELSE IF parent = <<>> /\ info.zipped # <<>> THEN [ok |-> FALSE]
        ELSE IF \E j \in 1 .. Len(kids) : ~kids[j].ok THEN [ok |-> FALSE]
        ELSE [ok |-> TRUE,
              pkg |-> [id |-> id, name |-> info.name, file |-> info.file,
                       size |-> info.size, sha256 |-> info.sha256,
                       sha1 |-> info.sha1, md5 |-> info.md5,
                       source |-> info.source, zipped |-> info.zipped,
                       parent |-> parent,
                       packages |-> [j \in 1 .. Len(kids) |-> kids[j].pkg]]]

\* Packages._parsePackages: packages.map(info => new Package(info))
parsePackages(infos) ==
    LET roots == [j \in 1 .. Len(infos) |-> Construct(infos[j], <<j>>)]
    IN  IF \E j \in 1 .. Len(roots) : ~roots[j].ok THEN [ok |-> FALSE]
        ELSE [ok |-> TRUE, packages |-> [j \in 1 .. Len(roots) |-> roots[j].pkg]]

\* Set.add: a Set keeps insertion order and holds an object once.
SetAdd(r, entry) ==
    IF \E i \in 1 .. Len(r) : r[i].id = entry.id THEN r ELSE Append(r, entry)

RECURSIVE listLoop_RootsOnly(_, _)
\* A variant that does not put the children of an entry on the list.
listLoop_RootsOnly(itter, r) ==
    IF itter = <<>> THEN r
    ELSE LET entry == Head(itter)
         IN  listLoop_RootsOnly(Tail(itter), SetAdd(r, entry))

RECURSIVE listLoop_Push(_, _)
\* A variant that puts the children of an entry at the end of the list.
listLoop_Push(itter, r) ==
    IF itter = <<>> THEN r
    ELSE LET entry == Head(itter)
         IN  listLoop_Push(Tail(itter) \o entry.packages, SetAdd(r, entry))

RECURSIVE listLoop(_, _)
\* The loop of _listPackages: shift an entry, add it, unshift its children.
listLoop(itter, r) ==
    IF itter = <<>> THEN r
    ELSE LET entry == Head(itter)
         IN  listLoop(entry.packages \o Tail(itter), SetAdd(r, entry))

\* Packages._listPackages
listPackages(pks) == listLoop(pks, <<>>)

RECURSIVE mapLoop(_, _, _, _)
\* The loop of _packagesMapName/Sha256/Sha1/Md5 over field f: the Map from
\* key to entry, or the duplicate key error.
mapLoop(ps, f, i, r) ==
    IF i > Len(ps) THEN [ok |-> TRUE, map |-> r]
    ELSE IF ps[i][f] \in DOMAIN r THEN [ok |-> FALSE, map |-> r]
    ELSE mapLoop(ps, f, i + 1, r @@ (ps[i][f] :> ps[i].id))

\* new Map()
EmptyMap == [k \in {} |-> <<>>]

packagesMap(ps, f) == mapLoop(ps, f, 1, EmptyMap)

\* The keys _packagesMapUnique enters for an entry, in its order.
UniqueFields == <<"name", "sha256", "sha1", "md5">>

RECURSIVE uniqueLoop_FirstKey(_, _, _, _)
\* Variant: only the first key of an entry is entered.
uniqueLoop_FirstKey(ps, i, k, r) ==
    IF i > Len(ps) THEN [ok |-> TRUE, map |-> r]
    ELSE IF k > 1 THEN uniqueLoop_FirstKey(ps, i + 1, 1, r)
    ELSE LET unique == ps[i][UniqueFields[k]]
         IN  IF unique \in DOMAIN r THEN [ok |-> FALSE, map |-> r]
             ELSE uniqueLoop_FirstKey(ps, i, k + 1, r @@ (unique :> ps[i].id))

RECURSIVE uniqueLoop(_, _, _, _)
\* The loops of _packagesMapUnique.
uniqueLoop(ps, i, k, r) ==
    IF i > Len(ps) THEN [ok |-> TRUE, map |-> r]
    ELSE IF k > Len(UniqueFields) THEN uniqueLoop(ps, i + 1, 1, r)
    ELSE LET unique == ps[i][UniqueFields[k]]
         IN  IF unique \in DOMAIN r THEN [ok |-> FALSE, map |-> r]
             ELSE uniqueLoop(ps, i, k + 1, r @@ (unique :> ps[i].id))

packagesMapUnique(ps) == uniqueLoop(ps, 1, 1, EmptyMap)

\* A Packages object just constructed: nothing loaded.
NewPackages ==
    [loaded |-> FALSE, packagesList |-> <<>>, packages |-> <<>>, set |-> 0,
     byName |-> EmptyMap, bySha256 |-> EmptyMap, bySha1 |-> EmptyMap,
     byMd5 |-> EmptyMap, byUnique |-> EmptyMap]

\* A variant that assigns each property as soon as it is computed.
setPackagesList_Eager(c, list, fresh) ==
    LET fmt      == validateFormat(list.format)
        parsed   == parsePackages(list.packages)
        pks      == listPackages(parsed.packages)
        mName    == packagesMap(pks, "name")
        mSha256  == packagesMap(pks, "sha256")
        mSha1    == packagesMap(pks, "sha1")
        mMd5     == packagesMap(pks, "md5")
        mUnique  == packagesMapUnique(pks)
        c1       == [c EXCEPT !.loaded = TRUE, !.packagesList = list]
        c2       == [c1 EXCEPT !.packages = pks, !.set = fresh]
        c3       == [c2 EXCEPT !.byName = mName.map]
        c4       == [c3 EXCEPT !.bySha256 = mSha256.map]
        c5       == [c4 EXCEPT !.bySha1 = mSha1.map]
        c6       == [c5 EXCEPT !.byMd5 = mMd5.map]
    IN  IF fmt # "" THEN [err |-> "format", c |-> c]
        ELSE IF ~parsed.ok THEN [err |-> "zipped", c |-> c1]
        ELSE IF ~mName.ok THEN [err |-> "name", c |-> c2]
        ELSE IF ~mSha256.ok THEN [err |-> "sha256", c |-> c3]
        ELSE IF ~mSha1.ok THEN [err |-> "sha1", c |-> c4]
        ELSE IF ~mMd5.ok THEN [err |-> "md5", c |-> c5]
        ELSE IF ~mUnique.ok THEN [err |-> "unique", c |-> c6]
        ELSE [err |-> "",
              c |-> [loaded |-> TRUE, packagesList |-> list,
                     packages |-> pks, set |-> fresh,
                     byName |-> mName.map, bySha256 |-> mSha256.map,
                     bySha1 |-> mSha1.map, byMd5 |-> mMd5.map,
                     byUnique |-> mUnique.map]]

\* Packages._setPackagesList on object c; `fresh` is the identity of the
\* Set that _listPackages creates.  err is "" and c the object with its
\* seven properties assigned, or err tells what threw and c is as before.
setPackagesList(c, list, fresh) ==
    LET fmt      == validateFormat(list.format)
        parsed   == parsePackages(list.packages)
        pks      == listPackages(parsed.packages)
        mName    == packagesMap(pks, "name")
        mSha256  == packagesMap(pks, "sha256")
        mSha1    == packagesMap(pks, "sha1")
        mMd5     == packagesMap(pks, "md5")
        mUnique  == packagesMapUnique(pks)
    IN  IF fmt # "" THEN [err |-> "format", c |-> c]
        ELSE IF ~parsed.ok THEN [err |-> "zipped", c |-> c]
        ELSE IF ~mName.ok THEN [err |-> "name", c |-> c]
        ELSE IF ~mSha256.ok THEN [err |-> "sha256", c |-> c]
        ELSE IF ~mSha1.ok THEN [err |-> "sha1", c |-> c]
        ELSE IF ~mMd5.ok THEN [err |-> "md5", c |-> c]
        ELSE IF ~mUnique.ok THEN [err |-> "unique", c |-> c]
        ELSE [err |-> "",
              c |-> [loaded |-> TRUE, packagesList |-> list,
                     packages |-> pks, set |-> fresh,
                     byName |-> mName.map, bySha256 |-> mSha256.map,
                     bySha1 |-> mSha1.map, byMd5 |-> mMd5.map,
                     byUnique |-> mUnique.map]]

\* The IPackageUpdated of an entry.
Updated(p) ==
    [name |-> p.name, file |-> p.file, size |-> p.size, sha256 |-> p.sha256]

\* A variant that compares the sha256 only.
Changed_HashOnly(before, obj) == before.sha256 # obj.sha256

\* before.sha256 !== sha256 || before.size !== size || before.file !== file
Changed(before, obj) ==
    before.sha256 # obj.sha256 \/ before.size # obj.size
       \/ before.file # obj.file

NoReport == [added |-> <<>>, updated |-> <<>>, removed |-> <<>>]

\* The report of Packages.update: `old` is the map built from the entries
\* before the data was set (in insertion order), `new` the entries after.
Report(old, new) ==
    LET oldNames == {old[i].name : i \in 1 .. Len(old)}
        newNames == {new[i].name : i \in 1 .. Len(new)}
        before(n) == old[CHOOSE i \in 1 .. Len(old) : old[i].name = n]
        objs == [i \in 1 .. Len(new) |-> Updated(new[i])]
    IN  [added   |-> SelectSeq(objs, LAMBDA o : o.name \notin oldNames),
         updated |-> SelectSeq(objs, LAMBDA o : /\ o.name \in oldNames
                                                /\ Changed(before(o.name), o)),
         removed |-> SelectSeq(old, LAMBDA o : o.name \notin newNames)]

\* Packages.update(data) on object c: err, the object after, the report.
update(c, data, fresh) ==
    LET old == [i \in 1 .. Len(c.packages) |-> Updated(c.packages[i])]
        r   == setPackagesList(c, [format |-> data.format,
                                   packages |-> data.packages], fresh)
    IN  IF ~castData(data) THEN [err |-> "cast", c |-> c, report |-> NoReport]
        ELSE IF r.err # "" THEN [err |-> r.err, c |-> r.c, report |-> NoReport]
        ELSE [err |-> "", c |-> r.c, report |-> Report(old, r.c.packages)]

\* Packages.read() on object c when the file holds `data`, or is missing.
read(c, data, fresh) ==
    LET r == setPackagesList(c, [format |-> data.format,
                                 packages |-> data.packages], fresh)
    IN  IF data.shape = "missing" THEN [err |-> "ENOENT", c |-> c]
        ELSE IF ~castData(data) THEN [err |-> "cast", c |-> c]
        ELSE [err |-> r.err, c |-> r.c]

\* A variant that takes every error for "no file".
readIfExists_Swallow(c, data, fresh) ==
    LET r == read(c, data, fresh)
    IN  IF r.err # "" THEN [err |-> "", c |-> r.c, ret |-> "false"]
        ELSE [err |-> "", c |-> r.c, ret |-> "true"]

\* Packages.readIfExists() on object c: false for ENOENT, any other error
\* thrown on, else true.
readIfExists(c, data, fresh) ==
    LET r == read(c, data, fresh)
    IN  IF r.err = "ENOENT" THEN [err |-> "", c |-> r.c, ret |-> "false"]
        ELSE IF r.err # "" THEN [err |-> r.err, c |-> r.c, ret |-> ""]
        ELSE [err |-> "", c |-> r.c, ret |-> "true"]

\* if (!zipped) throw new Error('Not a child package')
NotChild(p) == p.zipped = <<>>

\* What a query on a node gives: a value, or the error it throws.
Value(v) == [ok |-> TRUE, err |-> "", v |-> v]

Thrown(e, v) == [ok |-> FALSE, err |-> e, v |-> v]

\* The three getZipped* methods called on node p.
Queries(p) ==
    [id |-> p.id,
     zipped |-> p.zipped,
     compression |->
        IF NotChild(p) THEN Thrown("Not a child package", 0)
        ELSE Value(getZippedCompression(p)),
     slice |->
        IF NotChild(p) THEN Thrown("Not a child package", <<>>)
        ELSE Value(getZippedSlice(p)),
     decompressor |->
        IF NotChild(p) THEN Thrown("Not a child package", <<>>)
        ELSE IF UnsupportedCompression(p)
        THEN Thrown("Unsupported zipped compression", <<>>)
        ELSE Value(getZippedDecompressor(p))]

NoQuery == [id |-> <<>>, zipped |-> <<>>, compression |-> Thrown("", 0),
            slice |-> Thrown("", <<>>), decompressor |-> Thrown("", <<>>)]

-----------------------------------------------------------------------------
(* Catalog texts given to Packages.update and Packages.read *)

\* One entry of a catalog text, without its children; zip is its zipped
\* value when it has one.
Info(name, file, size, sha256, sha1, md5, source, zip) ==
    [name |-> name, file |-> file, size |-> size, sha256 |-> sha256,
     sha1 |-> sha1, md5 |-> md5, source |-> source, zip |-> zip]

EntryA == Info("a", "a.bin", 1, "s1", "h1", "m1", "/a", <<0, 0, 1>>)

EntryB == Info("b", "b.bin", 1, "s2", "h2", "m2", "a/b", <<8, 0, 1>>)

EntryC == Info("c", "c.bin", 1, "s3", "h3", "m3", "b/c", <<0, 1, 1>>)

\* Entry a as a later catalog may list it: another file name, size,
\* sha256 or source.
VariantsA ==
    {EntryA,
     [EntryA EXCEPT !.file = "a2.bin"],
     [EntryA EXCEPT !.size = 2],
     [EntryA EXCEPT !.sha256 = "s9"],
     [EntryA EXCEPT !.source = "/a2"]}

\* Entry b, and entry b sharing one key with entry a: its name, sha256,
\* sha1 or md5, or named like the sha256 of a.
VariantsB ==
    {EntryB,
     [EntryB EXCEPT !.name = "a"],
     [EntryB EXCEPT !.sha256 = "s1"],
     [EntryB EXCEPT !.sha1 = "h1"],
     [EntryB EXCEPT !.md5 = "m1"],
     [EntryB EXCEPT !.name = "s1"]}

\* Entry c, entry c with a compression method that is neither 0 nor 8,
\* and entry c sharing its md5 with entry b.
VariantsC ==
    {EntryC,
     [EntryC EXCEPT !.zip = <<9, 0, 1>>],
     [EntryC EXCEPT !.md5 = "m2"]}

\* A further entry, sharing no key with another.
EntryN(i) ==
    LET t == ToString(i)
    IN  Info("n" \o t, "n" \o t \o ".bin", 1, "s" \o t, "h" \o t,
             "m" \o t, "n" \o t, <<8, 0, 1>>)

\* The entries a, b, c, ... at the places 1 .. n.
Base(n) ==
    [i \in 1 .. n |->
        IF i = 1 THEN EntryA ELSE IF i = 2 THEN EntryB
        ELSE IF i = 3 THEN EntryC ELSE EntryN(i)]

RECURSIVE Ancestry(_, _)
\* Place i and the places above it in the forest pv, and 0 for "no parent".
Ancestry(pv, i) == IF i = 0 THEN {0} ELSE {i} \cup Ancestry(pv, pv[i])

\* The forests of n entries: pv[i] is the place of the parent of entry i
\* (0 for a root), entries numbered as the text lists them.
Forests(n) ==
    {pv \in [1 .. n -> 0 .. n - 1] :
        /\ pv[1] = 0
        /\ \A i \in 2 .. n : pv[i] \in Ancestry(pv, i - 1)}

RECURSIVE Sorted(_)
\* The numbers of S in increasing order.
Sorted(S) ==
    IF S = {} THEN <<>>
    ELSE LET m == CHOOSE x \in S : \A y \in S : x <= y
         IN  <<m>> \o Sorted(S \ {m})

RECURSIVE Listing(_, _, _, _)
\* The `packages` array of place i (0: of the catalog) in the text of
\* forest pv with entries es; entry `flip`, if any, has zipped where it
\* should not or lacks it where it should have it.
Listing(pv, es, flip, i) ==
    LET kids == Sorted({j \in DOMAIN pv : pv[j] = i})
    IN  [k \in 1 .. Len(kids) |->
            LET j == kids[k]
                e == es[j]
            IN  [name |-> e.name, file |-> e.file, size |-> e.size,
                 sha256 |-> e.sha256, sha1 |-> e.sha1, md5 |-> e.md5,
                 source |-> e.source,
                 zipped |-> IF (pv[j] # 0) # (j = flip) THEN e.zip ELSE <<>>,
                 packages |-> Listing(pv, es, flip, j)]]

\* A catalog text: JSON of an object with `format` and `packages`.
Text(format, pks) == [shape |-> "ok", format |-> format, packages |-> pks]

\* A text that is not JSON, or JSON of something else (no string format,
\* no packages array).
BadTexts ==
    {[shape |-> "notJson", format |-> <<>>, packages |-> <<>>],
     [shape |-> "notCatalog", format |-> <<>>, packages |-> <<>>]}

\* No file.
Missing == [shape |-> "missing", format |-> <<>>, packages |-> <<>>]

Sizes == 1 .. MaxNodes

\* The forest where each entry is the child of the one before it.
Chain(n) == [i \in 1 .. n |-> i - 1]

\* Texts of the entries a, b, c, ... in every forest.
BaseTexts ==
    UNION {{Text(FORMAT, Listing(pv, Base(n), 0, 0)) : pv \in Forests(n)} :
              n \in Sizes}

\* Entry a alone and entry a with its child b, for every variant of a.
VariantTexts ==
    {Text(FORMAT, Listing(Chain(n), [Base(n) EXCEPT ![1] = e], 0, 0)) :
        e \in VariantsA, n \in 1 .. 2}

\* Where the entries b and c vary: a > b > c, and the roots a and b with
\* c the child of b.
DupShapes == {<<0, 1, 2>>, <<0, 0, 2>>}

\* Entries a, b, c with at most one of b and c varied.
DupTexts ==
    {Text(FORMAT, Listing(pv, [Base(3) EXCEPT ![2] = e], 0, 0)) :
        pv \in DupShapes, e \in VariantsB}
       \cup {Text(FORMAT, Listing(pv, [Base(3) EXCEPT ![3] = e], 0, 0)) :
                pv \in DupShapes, e \in VariantsC}

\* One or two entries, one of them with a zipped value out of place.
FlipTexts ==
    UNION {{Text(FORMAT, Listing(pv, Base(n), k, 0)) :
               pv \in Forests(n), k \in 1 .. n} : n \in 1 .. 2}

\* Integer components of a format string, -1 among them.
IntToks == {IntTok(n) : n \in -1 .. MaxVersion}

\* Format strings: two integer components; one component empty or not a
\* number; one component only; three components.
Formats ==
    {<<t, u>> : t \in IntToks, u \in IntToks}
       \cup {<<t, u>> : t \in {EmptyTok, TextTok},
                        u \in {IntTok(1), IntTok(2)}}
       \cup {<<t, u>> : t \in {IntTok(1), IntTok(2)},
                        u \in {EmptyTok, TextTok}}
       \cup {<<IntTok(1)>>, <<EmptyTok>>, FORMAT \o <<IntTok(0)>>}

\* The catalog of entry a alone, in every format.
FormatTexts == {Text(f, Listing(<<0>>, Base(1), 0, 0)) : f \in Formats}

\* What update() and read() are given.
RawData ==
    VariantTexts \cup DupTexts \cup FlipTexts \cup FormatTexts \cup BadTexts

\* The catalogs a traversal is followed on: every forest, and one with a
\* compression method that is neither 0 nor 8.
TravData ==
    BaseTexts
       \cup {Text(FORMAT,
                  Listing(Chain(3),
                          [Base(3) EXCEPT ![3].zip = <<9, 0, 1>>], 0, 0))}

\* What update() is given while a traversal is followed.
ReloadData ==
    {Text(FORMAT, Listing(Chain(2), Base(2), 0, 0)),
     Text(FORMAT, Listing(Chain(1), Base(1), 0, 0))}
       \cup {t \in BadTexts : t.shape = "notJson"}

-----------------------------------------------------------------------------
(* Calls on one Packages object *)

\* No traversal.
NoTrav ==
    [state |-> "none", set |-> 0, entries |-> <<>>, pos |-> 0,
     yielded |-> <<>>]

\* The traversal holds a Set.
Holding(t) == t.state \in {"suspended", "done"}

\* The identity of a newly created Set: one that no live object has.
FreshSet ==
    CHOOSE n \in 1 .. 3 :
       /\ n # cat.set
       /\ Holding(trav) => n # trav.set
       /\ \A m \in 1 .. n - 1 : m = cat.set \/ (Holding(trav) /\ m = trav.set)

CatIdle ==
    /\ cat = NewPackages
    /\ cat0 = NewPackages
    /\ cin = Missing
    /\ cstatus = [call |-> "", err |-> "", ret |-> ""]
    /\ creport = NoReport
    /\ cquery = NoQuery
    /\ trav = NoTrav

\* packages.update(data)
CatUpdate(data) ==
    \E r \in {update(cat, data, FreshSet)} :
        /\ cat' = r.c
        /\ cat0' = cat
        /\ cin' = data
        /\ cstatus' = [call |-> "update", err |-> r.err, ret |-> ""]
        /\ creport' = r.report
        /\ cquery' = NoQuery
        /\ UNCHANGED trav

\* await packages.read() when the file holds `data`
CatRead(data) ==
    \E r \in {read(cat, data, FreshSet)} :
        /\ cat' = r.c
        /\ cat0' = cat
        /\ cin' = data
        /\ cstatus' = [call |-> "read", err |-> r.err, ret |-> ""]
        /\ creport' = NoReport
        /\ cquery' = NoQuery
        /\ UNCHANGED trav

\* await packages.readIfExists() when the file holds `data`
CatReadIfExists(data) ==
    \E r \in {readIfExists(cat, data, FreshSet)} :
        /\ cat' = r.c
        /\ cat0' = cat
        /\ cin' = data
        /\ cstatus' = [call |-> "readIfExists", err |-> r.err, ret |-> r.ret]
        /\ creport' = NoReport
        /\ cquery' = NoQuery
        /\ UNCHANGED trav

\* The getZipped* methods are called on an entry of the catalog.
CatQuery ==
    /\ \E i \in 1 .. Len(cat.packages) : cquery' = Queries(cat.packages[i])
    /\ cquery' # cquery
    /\ UNCHANGED <<cat, cat0, cin, cstatus, creport, trav>>

\* packages.packages() is called: a generator that has not run yet.
TravCall ==
    /\ trav.state \in {"none", "done"}
    /\ trav' = [NoTrav EXCEPT !.state = "created"]
    /\ UNCHANGED <<cat, cat0, cin, cstatus, creport, cquery>>

\* A variant that does not look whether the Set was replaced.
SetChanged_Never(t, c) == FALSE

\* if (packages !== this._packages)
SetChanged(t, c) == t.set # c.set

\* next() on the generator: on the first call it takes this._packages;
\* then the Set's iterator moves on and, unless the Set was replaced,
\* the entry is yielded.
TravNext ==
    /\ trav.state \in {"created", "suspended"}
    /\ LET t == IF trav.state = "created"
                 THEN [trav EXCEPT !.set = cat.set, !.entries = cat.packages]
                 ELSE trav
       IN  IF t.pos >= Len(t.entries) \/ SetChanged(t, cat)
           THEN trav' = [t EXCEPT !.state = "done"]
           ELSE trav' = [t EXCEPT !.state = "suspended",
                                  !.pos = @ + 1,
                                  !.yielded =
                                      Append(@, [id |-> t.entries[t.pos + 1].id,
                                                 name |-> t.entries[t.pos + 1].name,
                                                 current |-> cat.set])]
    /\ UNCHANGED <<cat, cat0, cin, cstatus, creport, cquery>>

-----------------------------------------------------------------------------
(* The manager on one root path *)

PipeIdle ==
    /\ chain = <<>>
    /\ rootBytes = <<>>
    /\ ppc = "off"
    /\ pslice = <<>>
    /\ ptransforms = <<>>
    /\ pinput = <<>>
    /\ written = <<>>
    /\ pushed = <<>>

\* A new Manager on an empty root path; no call made.
InstallIdle ==
    /\ fs = [q \in {<<>>} |-> Dir]
    /\ loaded = 0
    /\ pc = "idle"
    /\ pkg = NoPackage
    /\ packages = <<>>
    /\ slice = <<>>
    /\ transforms = <<>>
    /\ input = <<>>
    /\ bytesWritten = 0
    /\ hash = 0
    /\ fdOpen = FALSE
    /\ err = ""
    /\ events = <<>>
    /\ net = <<>>
    /\ status = "none"
    /\ ret = <<>>
    /\ fs0 = [q \in {<<>>} |-> Dir]

\* No query or removal made yet.
NoCall == [name |-> "", arg |-> ""]

LocalIdle ==
    /\ mcall = NoCall
    /\ mpc = "idle"
    /\ todo = <<>>
    /\ mlist = <<>>
    /\ mres = [err |-> "", ret |-> ""]
    /\ again = FALSE

DuoIdle ==
    /\ calls = <<>>
    /\ inodes = <<>>

Init ==
    /\ InstallIdle
    /\ PipeIdle
    /\ CatIdle
    /\ LocalIdle
    /\ DuoIdle

Install ==
    \/ InstallNotLoaded
    \/ \E name \in Targets : InstallCurrent(name)
    \/ \E name \in Targets : InstallStart(name)
    \/ RmTmp
    \/ MkdirTmp
    \/ OpenTmp
    \/ PreStepFails
    \/ FetchEmpty
    \/ FetchReject
    \/ FetchResponse
    \/ StreamChunk
    \/ StreamEnd
    \/ DirsEnsure
    \/ RmMeta
    \/ RmOut
    \/ RenameTmp
    \/ ReceiptRm
    \/ ReceiptWrite
    \/ ReceiptRename
    \/ TryStepFails
    \/ Finally

Update ==
    \/ UpdateStart
    \/ UpdateFetchReject
    \/ UpdateFetchResponse
    \/ UpdateApply
    \/ WriteMkdir
    \/ WriteRmTmp
    \/ WriteTmp
    \/ WriteRename

Next ==
    (Install \/ Update)
       /\ UNCHANGED pipeVars /\ UNCHANGED catVars /\ UNCHANGED localVars
       /\ UNCHANGED duoVars

Spec == Init /\ [][Next]_vars

\* The same manager when the process may also die at any step.
NextCrash ==
    (Install \/ Update \/ Crash)
       /\ UNCHANGED pipeVars /\ UNCHANGED catVars /\ UNCHANGED localVars
       /\ UNCHANGED duoVars

SpecCrash == Init /\ [][NextCrash]_vars

\* The same manager when the process may die at any step of the
\* persistence of the catalog and of a receipt.
NextPersist ==
    (Install \/ Update \/ CrashPersist \/ CrashInWrite)
       /\ UNCHANGED pipeVars /\ UNCHANGED catVars /\ UNCHANGED localVars
       /\ UNCHANGED duoVars

SpecPersist == Init /\ [][NextPersist]_vars

-----------------------------------------------------------------------------
(* The extraction pipeline on arbitrary chains of nodes *)

RECURSIVE SeqsUpTo(_, _)
\* All sequences over S of length at most n.
SeqsUpTo(S, n) ==
    IF n = 0 THEN {<<>>}
    ELSE LET T == SeqsUpTo(S, n - 1)
         IN  T \cup {Append(t, x) : t \in {u \in T : Len(u) = n - 1}, x \in S}

\* The zipped descriptors a node below the root may carry.
Zipped == {<<m, o, l>> : m \in {0, 8}, o \in 0 .. MaxOff, l \in 0 .. MaxLen}

\* Node number i of a chain: only its zipped descriptor matters here.
Node(i, z) ==
    [name |-> ToString(i), file |-> "", size |-> 0, sha256 |-> 0,
     source |-> "", zipped |-> z,
     parent |-> IF i = 1 THEN "" ELSE ToString(i - 1)]

InitPipe ==
    /\ InstallIdle
    /\ rootBytes \in SeqsUpTo(Bytes, MaxRootLen)
    /\ \E zs \in SeqsUpTo(Zipped, MaxDepth) :
          chain = [i \in 1 .. Len(zs) + 1 |->
                      Node(i, IF i = 1 THEN <<>> ELSE zs[i - 1])]
    /\ ppc = "fetch"
    /\ pslice = <<>>
    /\ ptransforms = <<>>
    /\ pinput = <<>>
    /\ written = <<>>
    /\ pushed = <<>>
    /\ CatIdle
    /\ LocalIdle
    /\ DuoIdle

\* A range that starts at or beyond the end of the resource: status 416.
Unsatisfiable(sl, b) ==
    IF sl = <<>> THEN FALSE ELSE sl[2] > 0 /\ sl[1] >= Len(b)

\* install() builds slice and transforms and a faithful server answers:
\* 200 with the whole resource, 416 for a range that starts beyond its
\* end, else 206 with the part of the range that exists, with or without a
\* content-length header.
PipeFetch ==
    /\ ppc = "fetch"
    /\ LET pl   == Plan(chain)
           sl   == pl.slice
           body == IF sl = <<>> THEN rootBytes
                   ELSE Subarray(rootBytes, sl[1], sl[1] + sl[2])
       IN  /\ pslice' = sl
           /\ ptransforms' = pl.transforms
           /\ \E header \in BOOLEAN :
                 IF \/ header /\ ~ContentLengthOk(Len(body),
                                        IF sl = <<>> THEN Len(rootBytes)
                                                      ELSE sl[2])
                    \/ Unsatisfiable(sl, rootBytes)
                 THEN ppc' = "rejected" /\ pinput' = <<>>
                 ELSE ppc' = "stream" /\ pinput' = body
    /\ UNCHANGED <<chain, rootBytes, written>>

\* One chunk of the body goes through the transforms to the temp file.
PipeChunk ==
    /\ ppc = "stream"
    /\ pinput # <<>>
    /\ \E n \in ChunkSizes(Len(pinput)) :
          LET r == Pipe(ptransforms, SubSeq(pinput, 1, n))
          IN  /\ pinput' = SubSeq(pinput, n + 1, Len(pinput))
              /\ ptransforms' = r.ts
              /\ written' = written \o r.out
    /\ UNCHANGED <<chain, rootBytes, ppc, pslice>>

\* The body ended: the pipeline resolves or rejects.
PipeEnd ==
    /\ ppc = "stream"
    /\ pinput = <<>>
    /\ ppc' = IF FlushError(ptransforms) THEN "error" ELSE "done"
    /\ UNCHANGED <<chain, rootBytes, pslice, ptransforms, pinput, written>>

NextPipe ==
    (PipeFetch \/ PipeChunk \/ PipeEnd)
       /\ UNCHANGED pushed
       /\ UNCHANGED installVars /\ UNCHANGED catVars /\ UNCHANGED localVars
       /\ UNCHANGED duoVars

SpecPipe == InitPipe /\ [][NextPipe]_vars

-----------------------------------------------------------------------------
(* SliceStream alone, on arbitrary inputs cut into arbitrary chunks *)

\* Transform.push(chunk) in byte mode: a chunk of length 0 is not passed
\* on to the readable side.
Push(c) == IF c = <<>> THEN <<>> ELSE <<c>>

\* Sizes of the chunks in which a readable hands on its n remaining bytes.
WriteSizes(n) == 0 .. Min(MaxChunk, n)

\* new SliceStream(start, size) and a readable of some bytes piped in.
InitSlice ==
    /\ rootBytes \in SeqsUpTo(Bytes, MaxLen)
    /\ pinput = rootBytes
    /\ \E start \in 0 .. MaxStart, size \in -2 .. MaxSize :
          ptransforms = <<SliceStream(start, size)>>
    /\ pushed = <<>>
    /\ ppc = "stream"
    /\ chain = <<>>
    /\ pslice = <<>>
    /\ written = <<>>
    /\ InstallIdle
    /\ CatIdle
    /\ LocalIdle
    /\ DuoIdle

\* _transform(chunk): one chunk of the input goes through.
SliceChunk ==
    /\ ppc = "stream"
    /\ \E n \in WriteSizes(Len(pinput)) :
          LET r == SliceTransform(ptransforms[1], SubSeq(pinput, 1, n))
          IN  /\ pinput' = SubSeq(pinput, n + 1, Len(pinput))
              /\ ptransforms' = <<r.t>>
              /\ pushed' = pushed \o Push(r.out)
    /\ UNCHANGED <<chain, rootBytes, ppc, pslice, written>>

\* The input ended.
SliceEnd ==
    /\ ppc = "stream"
    /\ pinput = <<>>
    /\ ppc' = "done"
    /\ UNCHANGED <<chain, rootBytes, pslice, ptransforms, pinput, written,
                   pushed>>

NextSlice ==
    (SliceChunk \/ SliceEnd)
       /\ UNCHANGED installVars /\ UNCHANGED catVars /\ UNCHANGED localVars
       /\ UNCHANGED duoVars

SpecSlice == InitSlice /\ [][NextSlice]_vars

-----------------------------------------------------------------------------
(* The catalog engine under any sequence of loads *)

NextCat ==
    (\/ \E data \in RawData : CatUpdate(data)
     \/ \E data \in RawData \cup {Missing} : CatRead(data)
     \/ \E data \in RawData \cup {Missing} : CatReadIfExists(data))
       /\ UNCHANGED installVars /\ UNCHANGED pipeVars /\ UNCHANGED localVars
       /\ UNCHANGED duoVars

SpecCat == Init /\ [][NextCat]_vars

-----------------------------------------------------------------------------
(* A loaded catalog: traversals interleaved with reloads, and queries *)

\* new Packages(path) followed by update(data) of a valid text.
InitTrav ==
    /\ \E data \in TravData :
          \E r \in {update(NewPackages, data, 1)} :
             /\ cat = r.c
             /\ cat0 = NewPackages
             /\ cin = data
             /\ cstatus = [call |-> "update", err |-> r.err, ret |-> ""]
             /\ creport = r.report
    /\ cquery = NoQuery
    /\ trav = NoTrav
    /\ InstallIdle
    /\ PipeIdle
    /\ LocalIdle
    /\ DuoIdle

NextTrav ==
    (\/ \E data \in ReloadData : CatUpdate(data)
     \/ CatQuery
     \/ TravCall
     \/ TravNext)
       /\ UNCHANGED installVars /\ UNCHANGED pipeVars /\ UNCHANGED localVars
       /\ UNCHANGED duoVars

SpecTrav == InitTrav /\ [][NextTrav]_vars

-----------------------------------------------------------------------------
(* Manager: removals and the obsolete directories, on a tree that earlier *)
(* runs left behind                                                        *)

\* The sha256 of package d of catalog 1, as the name of a directory.
HashName == ToString(byName(1, "d").sha256)

\* Names in the order of Array.prototype.sort(): by UTF-16 code unit.
NameOrder == <<META_DIR, ".x", HashName, "d", "o", "p", "r", "s">>

\* name.startsWith('.')
startsWithDot(x) == x \in {META_DIR, ".x"}

\* Variant: the entries are visited in descending order.
sortNames_Descending(S) == SelectSeq(Reverse(NameOrder), LAMBDA x : x \in S)

\* [...S].sort()
sortNames(S) == SelectSeq(NameOrder, LAMBDA x : x \in S)

\* Packages.byName(x) of catalog c is not null.
NameHits(c, x) == \E i \in 1 .. Len(Catalogs[c]) : Catalogs[c][i].name = x

\* Keys under which Packages.byUnique finds the package.
UniqueKeys(p) == {p.name, ToString(p.sha256)}

\* Packages.byUnique(x) of catalog c is not null.
UniqueHits(c, x) ==
    \E i \in 1 .. Len(Catalogs[c]) : x \in UniqueKeys(Catalogs[c][i])

\* Packages.byUnique(x) of catalog c.
byUnique(c, x) ==
    LET l == Catalogs[c]
    IN  l[CHOOSE i \in 1 .. Len(l) : x \in UniqueKeys(l[i])]

\* Variant: a string names the directory it spells.
asName_Literal(c, x) == x

\* Manager._asName(x) for a string x, which pathToPackage(x) and
\* pathToPackageMeta(x) apply to their first argument.
asName(c, x) == IF UniqueHits(c, x) THEN byUnique(c, x).name ELSE x

\* Manager._packageDirectories()
packageDirectories(f) ==
    sortNames({x \in {NameOrder[i] : i \in 1 .. Len(NameOrder)} :
                  ~startsWithDot(x) /\ IsDir(f, <<x>>)})

\* Variant: a directory no catalog package names is obsolete.
isObsolete_AnyDirectory(f, c, x) ==
    /\ ~startsWithDot(x)
    /\ ~NameHits(c, x)
    /\ Exists(f, pathToPackage(asName(c, x), <<>>))

\* Manager.isObsolete(x) on tree f with catalog c loaded.
isObsolete(f, c, x) ==
    /\ ~startsWithDot(x)
    /\ ~NameHits(c, x)
    /\ Exists(f, pathToPackageMeta(asName(c, x), <<>>))

\* Manager.obsolete()
obsolete(f, c) == SelectSeq(packageDirectories(f), LAMBDA x : isObsolete(f, c, x))

\* eventPackageCleanupBefore.trigger({package})
CleanupBefore(x) == [which |-> "cleanup-before", package |-> x]

\* eventPackageCleanupAfter.trigger({package, removed})
CleanupAfter(x, removed) ==
    [which |-> "cleanup-after", package |-> x, removed |-> removed]

\* What install() and update() keep in memory: untouched by these calls.
installRest ==
    <<pc, pkg, packages, slice, transforms, input, bytesWritten, hash,
      fdOpen, err, net, status, ret>>

NoResult == [err |-> "", ret |-> ""]

Gave(v) == [err |-> "", ret |-> v]

Threw(e) == [err |-> e, ret |-> ""]

\* The caller invokes method `name` with `arg`: no call is running.
StartCall(name, arg) ==
    /\ mpc \in {"idle", "returned"}
    /\ mcall' = [name |-> name, arg |-> arg]
    /\ again' = (mpc = "returned" /\ mres.err = ""
                    /\ mcall = [name |-> name, arg |-> arg])
    /\ fs0' = fs
    /\ events' = <<>>

\* ensureLoaded() rejects: nothing in memory and no catalog file.
CallNotLoaded(name, arg) ==
    /\ StartCall(name, arg)
    /\ EnsureLoaded(fs, loaded) = 0
    /\ mpc' = "returned"
    /\ mres' = Threw("notLoaded")
    /\ todo' = <<>>
    /\ mlist' = <<>>
    /\ UNCHANGED <<fs, loaded>>

\* The name remove() is working on: its argument, or the entry cleanup()
\* handed it.
Removing == IF mcall.name = "cleanup" THEN Head(todo) ELSE mcall.arg

\* remove(x) up to the lstat of the package directory.
RemoveStart(x) ==
    /\ StartCall("remove", x)
    /\ EnsureLoaded(fs, loaded) # 0
    /\ loaded' = EnsureLoaded(fs, loaded)
    /\ IF Exists(fs, pathToPackage(asName(loaded', x), <<>>))
       THEN mpc' = "rmMeta" /\ mres' = NoResult
       ELSE mpc' = "returned" /\ mres' = Gave("false")
    /\ todo' = <<>>
    /\ mlist' = <<>>
    /\ UNCHANGED fs

\* Variant: the package directory goes first.
RemoveMetaPath_DirFirst(c, x) == pathToPackage(asName(c, x), <<>>)

\* remove(): the path of the first rm.
RemoveMetaPath(c, x) == pathToPackageMeta(asName(c, x), <<>>)

\* remove(): rm(dirMeta, {recursive: true, force: true})
RemoveMeta ==
    /\ mpc = "rmMeta"
    /\ fs' = RmRecursive(fs, RemoveMetaPath(loaded, Removing))
    /\ mpc' = "rmDir"
    /\ UNCHANGED <<loaded, events, fs0, mcall, todo, mlist, mres, again>>

\* remove(): rm(dir, {recursive: true, force: true}) and return true; in
\* cleanup(), which goes on to notify and to record the removal.
RemoveDir ==
    /\ mpc = "rmDir"
    /\ fs' = RmRecursive(fs, pathToPackage(asName(loaded, Removing), <<>>))
    /\ IF mcall.name = "cleanup"
       THEN /\ events' = Append(events, CleanupAfter(Head(todo), TRUE))
            /\ mlist' = Append(mlist,
                               [package |-> Head(todo), removed |-> TRUE])
            /\ todo' = Tail(todo)
            /\ mpc' = "loop"
            /\ mres' = mres
       ELSE /\ mpc' = "returned"
            /\ mres' = Gave("true")
            /\ UNCHANGED <<events, mlist, todo>>
    /\ UNCHANGED <<loaded, fs0, mcall, again>>

\* isObsolete(x)
IsObsolete(x) ==
    /\ StartCall("isObsolete", x)
    /\ EnsureLoaded(fs, loaded) # 0
    /\ loaded' = EnsureLoaded(fs, loaded)
    /\ mpc' = "returned"
    /\ mres' = Gave(IF isObsolete(fs, loaded', x) THEN "true"
                        ELSE "false")
    /\ todo' = <<>>
    /\ mlist' = <<>>
    /\ UNCHANGED fs

\* obsolete()
Obsolete ==
    /\ StartCall("obsolete", "")
    /\ EnsureLoaded(fs, loaded) # 0
    /\ loaded' = EnsureLoaded(fs, loaded)
    /\ mpc' = "returned"
    /\ mres' = Gave(obsolete(fs, loaded'))
    /\ todo' = <<>>
    /\ mlist' = <<>>
    /\ UNCHANGED fs

\* cleanup() up to the loop: the directories to visit.
CleanupStart ==
    /\ StartCall("cleanup", "")
    /\ EnsureLoaded(fs, loaded) # 0
    /\ loaded' = EnsureLoaded(fs, loaded)
    /\ todo' = packageDirectories(fs)
    /\ mlist' = <<>>
    /\ mpc' = "loop"
    /\ mres' = NoResult
    /\ UNCHANGED fs

\* cleanup(), one entry: its temporary directory is removed; an obsolete
\* entry is announced and remove() runs up to its lstat.
CleanupEntry ==
    /\ mpc = "loop"
    /\ todo # <<>>
    /\ LET x  == Head(todo)
           f1 == RmRecursive(fs,
                    pathToPackageMeta(asName(loaded, x), <<TEMP_DIR>>))
       IN  /\ fs' = f1
           /\ IF ~isObsolete(f1, loaded, x)
              THEN /\ todo' = Tail(todo)
                   /\ UNCHANGED <<events, mlist, mpc>>
              ELSE IF Exists(f1, pathToPackage(asName(loaded, x), <<>>))
              THEN /\ events' = Append(events, CleanupBefore(x))
                   /\ mpc' = "rmMeta"
                   /\ UNCHANGED <<todo, mlist>>
              ELSE /\ events' = events \o <<CleanupBefore(x),
                                            CleanupAfter(x, FALSE)>>
                   /\ mlist' = Append(mlist,
                                  [package |-> x, removed |-> FALSE])
                   /\ todo' = Tail(todo)
                   /\ UNCHANGED mpc
    /\ UNCHANGED <<loaded, fs0, mcall, mres, again>>

\* cleanup(): return list
CleanupReturn ==
    /\ mpc = "loop"
    /\ todo = <<>>
    /\ mpc' = "returned"
    /\ mres' = Gave(mlist)
    /\ UNCHANGED <<fs, loaded, events, fs0, mcall, todo, mlist, again>>

\* Names the caller passes: a catalog package, its sha256, directories no
\* catalog knows, a dotted directory, and a name that is nowhere.
CallNames == {"d", HashName, "o", "p", ".x", "u"}

Local ==
    \/ \E x \in CallNames : CallNotLoaded("remove", x)
    \/ \E x \in CallNames : CallNotLoaded("isObsolete", x)
    \/ \E m \in {"obsolete", "cleanup"} : CallNotLoaded(m, "")
    \/ \E x \in CallNames : RemoveStart(x)
    \/ RemoveMeta
    \/ RemoveDir
    \/ \E x \in CallNames : IsObsolete(x)
    \/ Obsolete
    \/ CleanupStart
    \/ CleanupEntry
    \/ CleanupReturn

\* Pieces of a tree under one name.
NoEntry == [q \in {} |-> Dir]

DirOnly(x) == [q \in {<<x>>} |-> Dir]

WithMeta(x) == [q \in {<<x>>, <<x, META_DIR>>} |-> Dir]

WithTmp(x) ==
    [q \in {<<x>>, <<x, META_DIR>>, <<x, META_DIR, TEMP_DIR>>} |-> Dir]

\* What install() leaves: the receipt rc and the payload.
Installed(x, rc, bytes) ==
    [q \in {pathToPackageMeta(x, <<PACKAGE_FILE>>)} |-> File(rc)]
       @@ [q \in {pathToPackage(x, <<rc.file>>)} |-> File(bytes)]
       @@ WithMeta(x)

\* What update() leaves.
Persisted(c) ==
    IF c = 0 THEN NoEntry
    ELSE [q \in {packagesPath} |-> File(CatalogFile(c))]
            @@ [q \in {<<META_DIR>>} |-> Dir]

\* A package of a catalog that was withdrawn since.
Withdrawn(x) ==
    Package(x, x \o ".bin", <<1>>, "/" \o x, <<>>, "")

\* Trees under the name of package d: nothing, what an install() that
\* failed leaves, an install of the loaded or of an earlier catalog.
TreesOfD ==
    {NoEntry, WithMeta("d"), WithTmp("d")}
       \cup {Installed("d", Receipt(byName(c, "d")), bytes) :
                c \in {1, 3}, bytes \in {<<1, 1>>}}

\* Trees under a name no catalog has: nothing, a directory of the user's,
\* an install from before the package was withdrawn.
TreesOfStranger(x) ==
    {NoEntry, DirOnly(x), Installed(x, Receipt(Withdrawn(x)), <<1>>)}

LocalTrees ==
    {[q \in {<<>>} |-> Dir] @@ c @@ d @@ o @@ p @@ x @@ h :
        c \in {Persisted(i) : i \in {0, 1, 3}},
        d \in TreesOfD,
        o \in TreesOfStranger("o"),
        p \in {NoEntry, WithTmp("p")},
        x \in {NoEntry, WithMeta(".x")},
        h \in {NoEntry, DirOnly(HashName), WithMeta(HashName)}}

\* A new Manager on a root path that earlier runs used.
\* No install() or update() was called.
InstallRestIdle ==
    /\ pc = "idle"
    /\ pkg = NoPackage
    /\ packages = <<>>
    /\ slice = <<>>
    /\ transforms = <<>>
    /\ input = <<>>
    /\ bytesWritten = 0
    /\ hash = 0
    /\ fdOpen = FALSE
    /\ err = ""
    /\ net = <<>>
    /\ status = "none"
    /\ ret = <<>>

InitLocal ==
    /\ fs \in LocalTrees
    /\ fs0 = fs
    /\ loaded = 0
    /\ events = <<>>
    /\ InstallRestIdle
    /\ PipeIdle
    /\ CatIdle
    /\ LocalIdle
    /\ DuoIdle

NextLocal ==
    Local /\ UNCHANGED installRest /\ UNCHANGED pipeVars
          /\ UNCHANGED catVars
          /\ UNCHANGED duoVars

SpecLocal == InitLocal /\ [][NextLocal]_vars

-----------------------------------------------------------------------------
(* Manager: isInstalled, isCurrent and packageInstallVerify, on installs   *)
(* of several catalogs and on installs that were tampered with             *)

\* Variant: only names are looked up.
UnknownPackage_ByName(c, x) == ~NameHits(c, x)

\* Manager._asPackage(x) for a string x throws 'Unknown package'.
UnknownPackage(c, x) == ~UniqueHits(c, x)

\* Variant: the digest is looked at first.
verify_HashFirst(rc, bytes) ==
    IF Sha256(bytes) # rc.sha256 THEN [err |-> "hash", ret |-> Sha256(bytes)]
    ELSE IF Len(bytes) # rc.size THEN [err |-> "size", ret |-> Len(bytes)]
    ELSE Gave("")

\* packageInstallVerify(): the two checks of the payload `bytes` against
\* the receipt rc, with what the error message reports.
verify(rc, bytes) ==
    IF Len(bytes) # rc.size THEN [err |-> "size", ret |-> Len(bytes)]
    ELSE IF Sha256(bytes) # rc.sha256
    THEN [err |-> "hash", ret |-> Sha256(bytes)]
    ELSE Gave("")

\* packageInstallVerify(x) on tree f with catalog c loaded.
packageInstallVerify(f, c, x) ==
    IF UnknownPackage(c, x) THEN Threw("unknown")
    ELSE LET p == byUnique(c, x)
         IN  IF ~HasReceipt(f, p.name) THEN Threw("notInstalled")
             ELSE LET rc   == ReadReceipt(f, p.name)
                      path == pathToPackage(p.name, <<rc.file>>)
                  IN  IF ~Exists(f, path) THEN Threw("ENOENT")
                      ELSE verify(rc, f[path].data)

\* A call that only looks: it returns or throws r.
Query(name, x, r) ==
    /\ StartCall(name, x)
    /\ EnsureLoaded(fs, loaded) # 0
    /\ loaded' = EnsureLoaded(fs, loaded)
    /\ mpc' = "returned"
    /\ mres' = r
    /\ todo' = <<>>
    /\ mlist' = <<>>
    /\ UNCHANGED fs

\* isInstalled(x)
IsInstalled(x) ==
    LET c == EnsureLoaded(fs, loaded)
    IN  Query("isInstalled", x,
              IF UnknownPackage(c, x) THEN Threw("unknown")
              ELSE IF HasReceipt(fs, byUnique(c, x).name) THEN Gave("true")
              ELSE Gave("false"))

\* isCurrent(x)
IsCurrent(x) ==
    LET c == EnsureLoaded(fs, loaded)
    IN  Query("isCurrent", x,
              IF UnknownPackage(c, x) THEN Threw("unknown")
              ELSE IF isCurrent(fs, byUnique(c, x)) THEN Gave("true")
              ELSE Gave("false"))

\* packageInstallVerify(x)
PackageInstallVerify(x) ==
    Query("packageInstallVerify", x,
          packageInstallVerify(fs, EnsureLoaded(fs, loaded), x))

\* Names the caller passes: a catalog package, its sha256, a package that
\* was withdrawn.
QueryNames == {"d", HashName, "o"}

Queries3 == {"isInstalled", "isCurrent", "packageInstallVerify"}

LocalQuery ==
    \/ \E m \in Queries3 : \E x \in QueryNames : CallNotLoaded(m, x)
    \/ \E x \in QueryNames : IsInstalled(x)
    \/ \E x \in QueryNames : IsCurrent(x)
    \/ \E x \in QueryNames : PackageInstallVerify(x)

\* Receipts of package d: of the three catalogs, of a catalog that had the
\* package at another address, and of one that had other bytes of the same
\* length in it.
ReceiptsOfD ==
    {Receipt(byName(c, "d")) : c \in CatalogIds}
       \cup {[Receipt(byName(1, "d")) EXCEPT !.source = "/moved"],
             Receipt(Package("d", "d.bin", <<1, 2>>, "s/d.bin",
                             <<8, 1, 3>>, "s"))}

\* What is found in the place of the payload: the bytes of one of the
\* catalogs, or bytes that were changed or lost since.
Payloads == {<<>>, <<1, 1>>, <<2, 1>>, <<1, 1, 0>>}

\* An install whose payload was deleted since.
WithoutPayload(x, rc) ==
    [q \in {pathToPackageMeta(x, <<PACKAGE_FILE>>)} |-> File(rc)]
       @@ WithMeta(x)

\* An install whose receipt does not parse.
WithTornReceipt(x, file, bytes) ==
    [q \in {pathToPackageMeta(x, <<PACKAGE_FILE>>)} |-> File(Torn)]
       @@ [q \in {pathToPackage(x, <<file>>)} |-> File(bytes)]
       @@ WithMeta(x)

QueryTrees ==
    {[q \in {<<>>} |-> Dir] @@ c @@ d @@ o :
        c \in {Persisted(i) : i \in 0 .. Len(Catalogs)},
        d \in {NoEntry, WithMeta("d"), WithTmp("d"),
               WithTornReceipt("d", "d.bin", <<1, 1>>)}
                 \cup {Installed("d", rc, bytes) :
                          rc \in ReceiptsOfD, bytes \in Payloads}
                 \cup {WithoutPayload("d", rc) : rc \in ReceiptsOfD},
        o \in {NoEntry, Installed("o", Receipt(Withdrawn("o")), <<1>>)}}

\* A new Manager on a root path that earlier runs used.
InitQuery ==
    /\ fs \in QueryTrees
    /\ fs0 = fs
    /\ loaded = 0
    /\ events = <<>>
    /\ InstallRestIdle
    /\ PipeIdle
    /\ CatIdle
    /\ LocalIdle
    /\ DuoIdle

NextQuery ==
    LocalQuery /\ UNCHANGED installRest /\ UNCHANGED pipeVars
               /\ UNCHANGED catVars
               /\ UNCHANGED duoVars

SpecQuery == InitQuery /\ [][NextQuery]_vars

-----------------------------------------------------------------------------
(* Manager: upgrade() and install() where other packages are installed *)

\* Variant: a directory without a receipt is passed over.
outdated_Installed(f, c) ==
    SelectSeq(packageDirectories(f),
              LAMBDA x : /\ NameHits(c, x)
                         /\ HasReceipt(f, x)
                         /\ ~isCurrent(f, byName(c, x)))

\* Manager.outdated(): the names of the packages it lists.
outdated(f, c) ==
    SelectSeq(packageDirectories(f),
              LAMBDA x : NameHits(c, x) /\ ~isCurrent(f, byName(c, x)))

\* install(name) from its call to its first await.
InstallCall(name) ==
    IF EnsureLoaded(fs, loaded) = 0 THEN InstallNotLoaded
    ELSE IF isCurrent(fs, byName(EnsureLoaded(fs, loaded), name))
    THEN InstallCurrent(name)
    ELSE InstallStart(name)

\* install(id): _asPackage(id) throws, no catalog package has the key.
InstallUnknown(id) ==
    /\ Callable
    /\ EnsureLoaded(fs, loaded) # 0
    /\ UnknownPackage(EnsureLoaded(fs, loaded), id)
    /\ loaded' = EnsureLoaded(fs, loaded)
    /\ pc' = "returned"
    /\ status' = "fail"
    /\ err' = "unknown"
    /\ events' = <<>>
    /\ net' = <<>>
    /\ ret' = <<>>
    /\ fs0' = fs
    /\ pkg' = NoPackage
    /\ packages' = <<>>
    /\ slice' = <<>>
    /\ transforms' = <<>>
    /\ input' = <<>>
    /\ bytesWritten' = 0
    /\ hash' = 0
    /\ UNCHANGED <<fs, fdOpen>>

\* install(id) for a string: pkg = await this._asPackage(pkg), then the
\* call goes on with the package found.
InstallById(id) ==
    IF EnsureLoaded(fs, loaded) = 0 THEN InstallNotLoaded
    ELSE IF UnknownPackage(EnsureLoaded(fs, loaded), id)
    THEN InstallUnknown(id)
    ELSE InstallCall(byUnique(EnsureLoaded(fs, loaded), id).name)

\* What the caller hands install(): a name, a hash, a string no catalog has.
InstallIds == Names \cup {HashName, "u"}

\* The caller invokes install(id) on the new Manager.
DirectInstall(name) ==
    /\ mpc = "idle"
    /\ pc = "idle"
    /\ InstallById(name)
    /\ mcall' = [name |-> "install", arg |-> name]
    /\ mpc' = "idle"
    /\ todo' = <<>>
    /\ mlist' = <<>>
    /\ mres' = NoResult
    /\ again' = FALSE

\* upgrade() up to the loop: const outdated = await this.outdated().  The
\* caller invokes it on the new Manager, or again when it has returned.
UpgradeStart ==
    /\ pc = "idle" \/ (mcall.name = "upgrade" /\ mres.err = "")
    /\ StartCall("upgrade", "")
    /\ EnsureLoaded(fs, loaded) # 0
    /\ loaded' = EnsureLoaded(fs, loaded)
    /\ todo' = outdated(fs, loaded')
    /\ mlist' = <<>>
    /\ mpc' = "loop"
    /\ mres' = NoResult
    /\ UNCHANGED fs
    /\ UNCHANGED installRest

\* upgrade(): await this.install(pkg) is entered for the next entry.
UpgradeInstall ==
    /\ mpc = "loop"
    /\ Len(mlist) < Len(todo)
    /\ InstallCall(todo[Len(mlist) + 1])
    /\ mpc' = "install"
    /\ UNCHANGED <<mcall, todo, mlist, mres, again>>

\* upgrade(): install() returned and its entry is pushed, or it threw and
\* upgrade() throws the same.
UpgradeCollect ==
    /\ mpc = "install"
    /\ pc = "returned"
    /\ IF status = "fail"
       THEN mpc' = "returned" /\ mres' = Threw(err) /\ mlist' = mlist
       ELSE /\ mpc' = "loop"
            /\ mlist' = Append(mlist, [package |-> pkg.name, install |-> ret])
            /\ mres' = mres
    /\ UNCHANGED <<mcall, todo, again>>
    /\ UNCHANGED installVars

\* upgrade(): return list
UpgradeReturn ==
    /\ mpc = "loop"
    /\ Len(mlist) = Len(todo)
    /\ mpc' = "returned"
    /\ mres' = Gave(mlist)
    /\ UNCHANGED <<mcall, todo, mlist, again>>
    /\ UNCHANGED installVars

\* install() after its first await.
InstallRun ==
    \/ RmTmp
    \/ MkdirTmp
    \/ OpenTmp
    \/ PreStepFails
    \/ FetchEmpty
    \/ FetchReject
    \/ FetchResponse
    \/ StreamChunk
    \/ StreamEnd
    \/ DirsEnsure
    \/ RmMeta
    \/ RmOut
    \/ RenameTmp
    \/ ReceiptRm
    \/ ReceiptWrite
    \/ ReceiptRename
    \/ TryStepFails
    \/ Finally

\* An install of package x of catalog 1.
Current(x) ==
    Installed(x, Receipt(byName(1, x)),
              IF x = "r" THEN <<1, 0, 2, 1, 0>>
              ELSE IF x = "s" THEN <<0, 2, 1, 0>>
              ELSE <<1, 1>>)

\* An install of what a forerunner of the catalogs had under the name x.
Older(x) ==
    Installed(x, Receipt(Package(x, x \o "0.bin", <<2>>, "/" \o x \o "0",
                                 <<>>, "")), <<2>>)

\* The tree with catalog c persisted and the given trees of r, s and d.
Tree(c, r, s, d) == [q \in {<<>>} |-> Dir] @@ Persisted(c) @@ r @@ s @@ d

\* Root paths as earlier runs left them: one package failed to install
\* and its parent is out of date; the root is out of date; all is current;
\* the catalog made d a root since it was installed; only the parent of
\* the target is installed; three installs failed; the catalog emptied d
\* and the parent is out of date; no catalog was ever fetched.
UpgradeTrees ==
    {Tree(1, Current("r"), Older("s"), WithMeta("d")),
     Tree(1, Older("r"), Current("s"), Current("d")),
     Tree(1, Current("r"), Current("s"), Current("d")),
     Tree(3, NoEntry, Current("s"), Current("d")),
     Tree(1, NoEntry, Current("s"), NoEntry),
     Tree(1, WithMeta("r"), WithMeta("s"), WithTmp("d")),
     Tree(2, Current("r"), Older("s"), Current("d")),
     Tree(0, NoEntry, NoEntry, Current("d"))}

\* A new Manager on a root path that earlier runs used.
InitUpgrade ==
    /\ fs \in UpgradeTrees
    /\ fs0 = fs
    /\ loaded = 0
    /\ events = <<>>
    /\ InstallRestIdle
    /\ PipeIdle
    /\ CatIdle
    /\ LocalIdle
    /\ DuoIdle

NextUpgrade ==
    (\/ CallNotLoaded("upgrade", "") /\ pc = "idle" /\ UNCHANGED installRest
     \/ UpgradeStart
     \/ UpgradeInstall
     \/ UpgradeCollect
     \/ UpgradeReturn
     \/ \E name \in InstallIds : DirectInstall(name)
     \/ InstallRun /\ UNCHANGED localVars)
       /\ UNCHANGED pipeVars /\ UNCHANGED catVars
       /\ UNCHANGED duoVars

SpecUpgrade == InitUpgrade /\ [][NextUpgrade]_vars

-----------------------------------------------------------------------------
(* Manager.update() on root paths that earlier runs left behind *)

\* A catalog file whose text Packages.read() refuses (not JSON, not a
\* catalog, a format this version does not take).
PersistedInvalid ==
    [q \in {packagesPath} |-> File(CatalogFile(0))]
       @@ [q \in {<<META_DIR>>} |-> Dir]

\* A temp sibling of the catalog file that a run which died left behind.
LeftOverTmp == [q \in {packagesPathTmp} |-> File(Torn)]

\* Root paths: never used; a catalog file that does not load, alone and
\* beside an install; a catalog file that loads, with and without a
\* left-over temp sibling; a temp sibling and no catalog file.
UpdateTrees ==
    {[q \in {<<>>} |-> Dir],
     [q \in {<<>>} |-> Dir] @@ PersistedInvalid,
     [q \in {<<>>} |-> Dir] @@ PersistedInvalid @@ Current("d"),
     Tree(1, NoEntry, NoEntry, Current("d")),
     Tree(2, NoEntry, NoEntry, NoEntry) @@ LeftOverTmp,
     [q \in {<<>>} |-> Dir] @@ LeftOverTmp @@ [q \in {<<META_DIR>>} |-> Dir]}

\* A new Manager on such a root path.
InitUpdate ==
    /\ fs \in UpdateTrees
    /\ fs0 = fs
    /\ loaded = 0
    /\ events = <<>>
    /\ InstallRestIdle
    /\ PipeIdle
    /\ CatIdle
    /\ LocalIdle
    /\ DuoIdle

NextUpdate ==
    Update /\ UNCHANGED pipeVars /\ UNCHANGED catVars /\ UNCHANGED localVars
    /\ UNCHANGED duoVars

SpecUpdate == InitUpdate /\ [][NextUpdate]_vars

-----------------------------------------------------------------------------
(* Properties of install(): what is on disk *)

\* Errors install() throws up to and including verification.
PreCommitErrs ==
    {"transport", "status", "content-length", "stream", "size", "hash"}

\* Steps of the commit: the try block after download-after.
CommitSteps == TrySteps \ {"stream"}

\* An install() call returned with one of the errors in E.
InstallFailed(E) ==
    pc = "returned" /\ status = "fail" /\ pkg.name # "" /\ err \in E

\* Receipt and payload that were on disk in f0 are on disk in f, the same.
Untouched(f0, f, name) ==
    HasReceipt(f0, name) =>
       LET out == pathToPackage(name, <<ReadReceipt(f0, name).file>>)
       IN  /\ HasReceipt(f, name)
           /\ ReadReceipt(f, name) = ReadReceipt(f0, name)
           /\ Exists(f0, out) => Exists(f, out) /\ f[out] = f0[out]

\* C1: whenever the receipt of a package is on disk, the payload named by
\* the receipt is on disk under the package directory, its size is the
\* receipt's size and its digest the receipt's sha256; in every state,
\* also in the middle of a call and after the process died at any step.
ReceiptImpliesPayload ==
    \A name \in Names :
       HasReceipt(fs, name) =>
          LET r   == ReadReceipt(fs, name)
              out == pathToPackage(name, <<r.file>>)
          IN  /\ IsFile(fs, out)
              /\ Len(fs[out].data) = r.size
              /\ Sha256(fs[out].data) = r.sha256

\* C1 happens: an install replaced a receipt by a different one.
ReceiptReplaced ==
    /\ status = "ok"
    /\ HasReceipt(fs0, pkg.name)
    /\ HasReceipt(fs, pkg.name)
    /\ ReadReceipt(fs, pkg.name) # ReadReceipt(fs0, pkg.name)

\* C2 as stated: a failed install leaves the directory tree exactly as it
\* was before the call.
FailedInstallRestoresTree ==
    InstallFailed(PreCommitErrs \cup CommitSteps) => fs = fs0

\* The paths a failed install may have added next to those it found.
PackageDirs(p) == {pathToPackage(p.name, <<>>), pathToPackageMeta(p.name, <<>>)}

\* The files the commit of package p works on.
CommitFiles(p) == {outFile(p), metaFile(p), metaFileTmp(p)}

\* C2 amended: after a failed install the temp directory is gone; what was
\* on disk before the call outside the temp directory and outside the
\* files of the commit is unchanged; nothing is added but the package
\* directory and its meta directory; a failure up to verification also
\* leaves the files of the commit unchanged; a failure of a commit step
\* leaves at the payload path the old payload, nothing, or the complete
\* verified payload, and at the receipt path the old receipt or nothing.
FailedInstallLeaves ==
    InstallFailed(PreCommitErrs \cup CommitSteps) =>
       LET tmp  == tmpDir(pkg)
           keep == {q \in DOMAIN fs0 : ~IsPrefix(tmp, q)} \ CommitFiles(pkg)
           out  == outFile(pkg)
           mf   == metaFile(pkg)
       IN  /\ ~Exists(fs, tmp)
           /\ \A q \in keep : Exists(fs, q) /\ fs[q] = fs0[q]
           /\ DOMAIN fs \subseteq
                 DOMAIN fs0 \cup PackageDirs(pkg) \cup CommitFiles(pkg)
           /\ err \in PreCommitErrs =>
                 \A q \in CommitFiles(pkg) :
                    /\ Exists(fs, q) <=> Exists(fs0, q)
                    /\ Exists(fs, q) => fs[q] = fs0[q]
           /\ Exists(fs, out) =>
                 \/ Exists(fs0, out) /\ fs[out] = fs0[out]
                 \/ /\ IsFile(fs, out)
                    /\ Len(fs[out].data) = pkg.size
                    /\ Sha256(fs[out].data) = pkg.sha256
           /\ Exists(fs, mf) => Exists(fs0, mf) /\ fs[mf] = fs0[mf]

\* C2 happens: an install over an installed package failed on the digest.
FailedOverInstalled ==
    InstallFailed({"hash"}) /\ HasReceipt(fs0, pkg.name)

\* C3: while an install has not passed verification, and after it failed
\* at any step up to verification, the receipt and payload that were on
\* disk before the call are still there, unchanged; they are gone or
\* replaced only when the bytes written equal the package's size and their
\* digest its sha256.
OldInstallKeptUntilVerified ==
    pkg.name # "" /\ status \in {"running", "ok", "fail"} =>
       /\ err \in PreSteps \cup PreCommitErrs => Untouched(fs0, fs, pkg.name)
       /\ pc \in PreSteps \cup {"fetch", "stream"}
             => Untouched(fs0, fs, pkg.name)
       /\ ~Untouched(fs0, fs, pkg.name)
             => bytesWritten = pkg.size /\ hash = pkg.sha256

\* C3 happens: an install over an installed package failed on the size.
FailedSizeOverInstalled ==
    InstallFailed({"size"}) /\ HasReceipt(fs0, pkg.name)

\* C4: install() of a package that is current returns the empty list,
\* notifies install-current once and nothing else, asks the network
\* nothing and changes nothing on disk.
CurrentIsNoOp ==
    pc = "returned" /\ pkg.name # "" /\ isCurrent(fs0, pkg) =>
       /\ status = "current"
       /\ ret = <<>>
       /\ events = <<[which |-> "install-current", package |-> pkg.name]>>
       /\ net = <<>>
       /\ fs = fs0

\* C4 happens: install() was called on a current package.
CalledOnCurrent == status = "current" /\ isCurrent(fs0, pkg)

-----------------------------------------------------------------------------
(* Properties of install(): notifications, result, requests *)

IsProgress(e) == e.which = "download-progress"

\* The progress notifications of the call, in order.
ProgressOf(es) == SelectSeq(es, IsProgress)

Notified(which) == \E i \in 1 .. Len(events) : events[i].which = which

\* C5: a successful install notified exactly install-before,
\* download-before, progress with amount 0, further progress, progress with
\* amount = total (the same notification as the first when the size is 0),
\* download-after, install-after; download-after is notified only when
\* size and digest were verified, install-after only when the receipt is
\* written and the temp directory removed, and never by a failed install.
InstallNotifications ==
    /\ status = "ok" =>
          LET n == Len(events)
          IN  /\ n >= 5
              /\ events[1] = [which |-> "install-before", package |-> pkg.name]
              /\ events[2] = [which |-> "download-before", package |-> pkg.name]
              /\ \A i \in 3 .. n - 2 :
                    /\ IsProgress(events[i])
                    /\ events[i].package = pkg.name
              /\ events[3].amount = 0
              /\ events[n - 2].amount = events[n - 2].total
              /\ events[n - 1] = [which |-> "download-after", package |-> pkg.name]
              /\ events[n] = [which |-> "install-after", package |-> pkg.name]
    /\ Notified("download-after") =>
          bytesWritten = pkg.size /\ hash = pkg.sha256
    /\ Notified("install-after") =>
          /\ HasReceipt(fs, pkg.name)
          /\ ReadReceipt(fs, pkg.name) = Receipt(pkg)
          /\ ~Exists(fs, tmpDir(pkg))
    /\ status = "fail" => ~Notified("install-after")

\* C5 happens: a successful install with progress between first and last.
NotifiedInSteps == status = "ok" /\ Len(events) >= 7

\* First amount 0, amounts strictly increasing, every total the declared
\* size of the target.
ProgressIncreases(P) ==
    /\ P # <<>> => P[1].amount = 0
    /\ \A i \in 2 .. Len(P) : P[i].amount > P[i - 1].amount
    /\ \A i \in 1 .. Len(P) : P[i].total = pkg.size

RECURSIVE Depth(_, _)
\* Number of parent links from the package to its root in catalog c.
Depth(c, name) ==
    IF byName(c, name).parent = "" THEN 0
    ELSE 1 + Depth(c, byName(c, name).parent)

\* C7: a successful install of a package that was not current returns the
\* names from the root to the target, each the parent of the next, depth
\* of the target plus one in all.
ReturnsAncestorChain ==
    status = "ok" =>
       /\ Len(ret) = Depth(loaded, pkg.name) + 1
       /\ ret[Len(ret)] = pkg.name
       /\ byName(loaded, ret[1]).parent = ""
       /\ \A i \in 2 .. Len(ret) : byName(loaded, ret[i]).parent = ret[i - 1]

\* C7 happens: a successful install of a package two levels below its root.
ReturnedThree == status = "ok" /\ Len(ret) = 3

\* The transport answered with the status and, if any, the length wanted.
GoodResponse(e, st, len) ==
    e.result = "response" /\ e.status = st /\ e.cl \in {-1, len}

\* C9: (a) a slice of positive length is asked with a ranged request for
\* bytes start .. start+length-1 of the root's source and the install goes
\* on only after status 206 and a content-length that is absent or equal
\* to the length; (b) a slice of length 0 makes no request and reads an
\* empty source; (c) a root target is asked with a plain request and the
\* install goes on only after status 200 and a content-length that is
\* absent or equal to the root's size.  Any other answer fails the install.
FetchRules ==
    pkg.name # "" /\ status \in {"running", "ok", "fail"} =>
       LET root   == packages[1]
           range  == IF slice = <<>> THEN <<>>
                     ELSE <<slice[1], slice[1] + slice[2] - 1>>
           st     == IF slice = <<>> THEN 200 ELSE 206
           len    == IF slice = <<>> THEN root.size ELSE slice[2]
           passed == pc \in {"stream"} \cup CommitSteps
                        \/ err \in {"stream", "size", "hash"} \cup CommitSteps
                        \/ status = "ok"
       IN  /\ slice = <<>> <=> pkg = root
           /\ IF slice # <<>> /\ len = 0
              THEN /\ net = <<>>
                   /\ pc = "stream" => input = <<>>
                   /\ bytesWritten = 0
              ELSE /\ \A i \in 1 .. Len(net) :
                         /\ net[i].url = root.source
                         /\ net[i].range = range
                         /\ net[i].result = "response"
                               /\ ~GoodResponse(net[i], st, len)
                               => /\ pc \in {"finally", "returned"}
                                  /\ err \in {"status", "content-length"}
                                  /\ status # "ok"
                   /\ passed => /\ net # <<>>
                                /\ GoodResponse(net[Len(net)], st, len)

\* C9 happens: a ranged request was answered with a wrong content-length.
RangedLengthRefused == InstallFailed({"content-length"}) /\ slice # <<>>

\* C10: the transport is invoked at most twice for one fetch, a second
\* time only after the first was rejected and always then; when both are
\* rejected the operation fails; an answer is never followed by another
\* request, and an answer with an unexpected status fails the operation.
OneRetry ==
    /\ Len(net) <= 2
    /\ \A i \in 1 .. Len(net) - 1 : net[i].result = "reject"
    /\ Len(net) = 1 /\ net[1].result = "reject"
          => pc \in {"fetch", "uFetch"} /\ err = ""
    /\ Len(net) = 2 /\ net[2].result = "reject"
          => /\ pc \in {"finally", "returned"}
             /\ err = "transport"
             /\ status \notin {"ok", "updated"}
    /\ \A i \in 1 .. Len(net) :
          net[i].result = "response"
             /\ net[i].status # (IF net[i].range = <<>> THEN 200 ELSE 206)
             => /\ pc \in {"finally", "returned"}
                /\ err = "status"
                /\ status \notin {"ok", "updated"}

\* C10 happens: an install went through on the second request.
SecondRequestServed ==
    status = "ok" /\ Len(net) = 2 /\ net[2].result = "response"

-----------------------------------------------------------------------------
(* Properties of the extraction pipeline *)

RECURSIVE RefInflate(_)
\* A whole buffer decompressed at once: runs up to the end marker; a
\* buffer that ends before its marker does not decompress.
RefInflate(b) ==
    IF b = <<>> THEN [ok |-> FALSE, out |-> <<>>]
    ELSE IF b[1] = 0 THEN [ok |-> TRUE, out |-> <<>>]
    ELSE IF Len(b) = 1 THEN [ok |-> FALSE, out |-> <<>>]
    ELSE LET r == RefInflate(SubSeq(b, 3, Len(b)))
         IN  [ok |-> r.ok, out |-> Repeat(b[2], b[1]) \o r.out]

RECURSIVE Extract(_, _, _)
\* The reference: the content of node i of chain ch over root bytes b is
\* its slice of the content of its parent, decompressed by its method.
Extract(ch, b, i) ==
    IF i = 1 THEN [ok |-> TRUE, out |-> b]
    ELSE LET par == Extract(ch, b, i - 1)
             z   == ch[i].zipped
             s   == Subarray(par.out, z[2], z[2] + z[3])
         IN  IF ~par.ok THEN [ok |-> FALSE, out |-> <<>>]
             ELSE IF z[1] = 8 THEN RefInflate(s)
             ELSE [ok |-> TRUE, out |-> s]

\* The nodes below the root's child that install() folds into the range it
\* asks of the root: those with only stored nodes between them and the root.
Folded(ch) == {i \in 3 .. Len(ch) : \A j \in 2 .. i - 1 : ch[j].zipped[1] = 0}

\* Every folded node lies inside the slice of its parent.
Nested(ch) ==
    \A i \in Folded(ch) : ch[i].zipped[2] + ch[i].zipped[3] <= ch[i - 1].zipped[3]

\* C8 as stated: for every chain, what the pipeline has written when it
\* resolves is the reference content of the target, and it rejects only
\* when the reference does not decompress.
PipelineIsReference ==
    LET ref == Extract(chain, rootBytes, Len(chain))
    IN  /\ ppc = "done" => ref.ok /\ written = ref.out
        /\ ppc = "error" => ~ref.ok

\* C8 amended: the same for every chain whose folded nodes lie inside
\* the slices of their parents.
NestedPipelineIsReference ==
    LET ref == Extract(chain, rootBytes, Len(chain))
    IN  Nested(chain) =>
           /\ ppc = "done" => ref.ok /\ written = ref.out
           /\ ppc = "error" => ~ref.ok

\* C8 happens: a deflate node inside a stored node was extracted.
ExtractedFolded ==
    /\ ppc = "done"
    /\ Len(chain) = 3
    /\ Nested(chain)
    /\ chain[2].zipped[1] = 0
    /\ chain[3].zipped[1] = 8
    /\ written # <<>>

-----------------------------------------------------------------------------
(* Properties of the catalog engine *)

\* The last update() or read() threw.
LoadFailed == cstatus.call # "" /\ cstatus.err # ""

\* The last update() or read() returned.
LoadDone == cstatus.call # "" /\ cstatus.err = ""

\* C11: after an update() or read() that failed (no file, text that is
\* not JSON of a catalog, refused format, zipped value out of place,
\* duplicate key) the loaded flag, the stored list, the traversal Set and
\* the five indices are what they were before the call.
FailedLoadKeepsCatalog == LoadFailed => cat = cat0

\* C11 happens: a load over a loaded catalog failed on the last index
\* built from one key of the entries, or on a zipped value.
FailedOverLoaded ==
    /\ cat0.loaded
    /\ cstatus.err \in {"md5", "zipped"}

RECURSIVE TextNodes(_, _)
\* The entries of a catalog text at every depth, each with its place:
\* the indices that lead to it through the `packages` arrays.
TextNodes(pks, at) ==
    UNION {{[at |-> Append(at, j), info |-> pks[j]]}
              \cup TextNodes(pks[j].packages, Append(at, j)) :
           j \in 1 .. Len(pks)}

\* Two entries of the text have the same value of field f.
SharesField(data, f) ==
    \E m, n \in TextNodes(data.packages, <<>>) :
       m.at # n.at /\ m.info[f] = n.info[f]

SharesKey(data) ==
    \E f \in {"name", "sha256", "sha1", "md5"} : SharesField(data, f)

\* C12: a text in which two entries, at any depth, have the same name,
\* sha256, sha1 or md5 is refused by update() and by read(), and a
\* catalog that was not loaded before is not loaded after.
DuplicateKeyRefused ==
    (cstatus.call # "" /\ cin.shape = "ok" /\ SharesKey(cin)) =>
       /\ LoadFailed
       /\ ~cat0.loaded => ~cat.loaded

\* C12 happens: the first load of a catalog was refused for an entry two
\* levels down that has the md5 of its parent.
DuplicateAtDepth ==
    /\ LoadFailed
    /\ ~cat0.loaded
    /\ cin.shape = "ok"
    /\ \E m, n \in TextNodes(cin.packages, <<>>) :
          /\ Len(m.at) = 3
          /\ n.at = SubSeq(m.at, 1, 2)
          /\ m.info.md5 = n.info.md5

\* The last call was given a catalog text (JSON of an object with a
\* format string and a packages array).
LoadedText == cstatus.call # "" /\ cin.shape = "ok"

\* The format of the text is two integers, MAJOR.MINOR.
TwoIntegers(format) ==
    Len(format) = 2 /\ \A i \in 1 .. 2 : format[i].kind = "int"

\* C13: a text whose format is MAJOR.MINOR passes the format check of
\* the engine (version 1.2) exactly when MAJOR = 1 and MINOR >= 2: "0.0",
\* "2.0", "1.0" and "1.1" are refused for their format, "1.2" and "1.3"
\* are not.
FormatGate ==
    (LoadedText /\ TwoIntegers(cin.format)) =>
       (cstatus.err # "format" <=>
           cin.format[1].v = 1 /\ cin.format[2].v >= 2)

\* C13 happens: a catalog in format 1.3 was loaded.
NewerMinorLoaded ==
    /\ LoadDone
    /\ cat.loaded
    /\ cin.format = <<IntTok(1), IntTok(3)>>

\* The format is exactly two components, each a non-negative integer.
TwoNaturals(format) ==
    TwoIntegers(format) /\ \A i \in 1 .. 2 : format[i].v >= 0

\* C14 as stated: a text whose format is not two dot separated
\* non-negative integers (a component that is not a number, is empty or
\* is negative; one component; three components) is refused.
MalformedFormatRefused ==
    (LoadedText /\ ~TwoNaturals(cin.format)) => LoadFailed

\* The entries of the text a catalog was loaded from (none when it is
\* not loaded), and those of the text of the last call.
OldInfos ==
    IF cat0.loaded
    THEN {m.info : m \in TextNodes(cat0.packagesList.packages, <<>>)}
    ELSE {}

NewInfos == {m.info : m \in TextNodes(cin.packages, <<>>)}

\* The names a list of the report holds.
Reported(list) == {list[i].name : i \in 1 .. Len(list)}

\* C15: the report of a successful update() holds in `added` the names
\* only the new text has, in `removed` the names only the old one has, in
\* `updated` the names both have with another file, size or sha256, each
\* name once and in one list at most; a name whose entry differs in its
\* source only is in none, and a reload of the same entries reports
\* nothing.
UpdateClassifies ==
    (LoadDone /\ cstatus.call = "update") =>
       LET old == {e.name : e \in OldInfos}
           new == {e.name : e \in NewInfos}
           differs == {n \in old \cap new :
                         \E e \in OldInfos, f \in NewInfos :
                            /\ e.name = n
                            /\ f.name = n
                            /\ <<e.file, e.size, e.sha256>>
                                  # <<f.file, f.size, f.sha256>>}
       IN  /\ Reported(creport.added) = new \ old
           /\ Reported(creport.removed) = old \ new
           /\ Reported(creport.updated) = differs
           /\ Len(creport.added) = Cardinality(new \ old)
           /\ Len(creport.removed) = Cardinality(old \ new)
           /\ Len(creport.updated) = Cardinality(differs)
           /\ (cat0.loaded /\ cat0.packagesList.packages = cin.packages)
                 => creport = NoReport

\* C15 happens: an update reported one entry as added and none as
\* updated although the source of an entry that stayed had changed.
SourceChangeUnreported ==
    /\ LoadDone
    /\ cstatus.call = "update"
    /\ creport.added # <<>>
    /\ creport.updated = <<>>
    /\ \E e \in OldInfos, f \in NewInfos :
          e.name = f.name /\ e.source # f.source

\* An entry of the text, at any depth, has a zipped value although it is
\* a root, or has none although it is listed under another entry.
Misplaced(data) ==
    \E m \in TextNodes(data.packages, <<>>) :
       (Len(m.at) > 1) # (m.info.zipped # <<>>)

\* C18: a node has a zipped value exactly when it has a parent: a text
\* with one entry, at any depth, for which this fails is refused as a
\* whole, and in a loaded catalog every node has a zipped value exactly
\* when its parent is not null, the parent of each child of a node is
\* that node, and the parent of a root is null.
ZippedIffParent ==
    /\ (LoadedText /\ Misplaced(cin)) => LoadFailed
    /\ \A i \in 1 .. Len(cat.packages) :
          LET p == cat.packages[i]
          IN  /\ (p.zipped # <<>>) <=> (p.parent # <<>>)
              /\ \A j \in 1 .. Len(p.packages) : p.packages[j].parent = p.id
              /\ Len(p.id) = 1 => p.parent = <<>>

\* C18 happens: a load over a loaded catalog of a root and its child was
\* refused for a child without zipped value.
ChildWithoutZipped ==
    /\ cstatus.err = "zipped"
    /\ Len(cat.packages) = 2
    /\ cat.packages[2].parent = cat.packages[1].id
    /\ \E m \in TextNodes(cin.packages, <<>>) :
          Len(m.at) = 2 /\ m.info.zipped = <<>>

\* C21: readIfExists() returns false, with the catalog as it was, exactly
\* when there is no file; with a file it returns true and the catalog is
\* loaded from the file's text, or it throws what read() throws (text
\* that is not JSON of a catalog, refused format, misplaced zipped value,
\* duplicate key) and the catalog is as it was.
ReadIfExistsOnlyHidesMissing ==
    cstatus.call = "readIfExists" =>
       /\ cstatus.ret = "false" <=> cin.shape = "missing"
       /\ cstatus.ret = "false" => cstatus.err = "" /\ cat = cat0
       /\ cstatus.ret = "true" =>
             /\ cstatus.err = ""
             /\ cat.loaded
             /\ cat.packagesList.packages = cin.packages
       /\ cstatus.err # "" => cstatus.ret = "" /\ cat = cat0
       /\ (\/ cin.shape \in {"notJson", "notCatalog"}
           \/ cin.shape = "ok" /\ (Misplaced(cin) \/ SharesKey(cin)))
             => cstatus.err # ""

\* C21 happens: readIfExists() on a loaded catalog threw for a file that
\* is not JSON.
ReadIfExistsThrew ==
    /\ cstatus.call = "readIfExists"
    /\ cat0.loaded
    /\ cin.shape = "notJson"
    /\ cstatus.err = "cast"

-----------------------------------------------------------------------------
(* Properties of the traversal *)

RECURSIVE Flat(_)
\* The concatenation of a sequence of sequences.
Flat(ss) == IF ss = <<>> THEN <<>> ELSE Head(ss) \o Flat(Tail(ss))

RECURSIVE PreOrder(_)
\* The names of a `packages` array of a catalog text in pre-order: each
\* entry followed by the pre-order of its own array.
PreOrder(pks) ==
    Flat([j \in 1 .. Len(pks) |->
             <<pks[j].name>> \o PreOrder(pks[j].packages)])

\* The names a traversal has yielded, in order.
YieldedNames == [i \in 1 .. Len(trav.yielded) |-> trav.yielded[i].name]

\* C16: a traversal of a catalog that is not reloaded meanwhile yields
\* the entries of the text in pre-order (each root in listed order, each
\* entry followed at once by its whole subtree), every entry once: what
\* it has yielded so far is the beginning of that order, and when it ends
\* it has yielded all of it.
TraversalIsPreOrder ==
    (Holding(trav) /\ trav.set = cat.set) =>
       LET ref == PreOrder(cat.packagesList.packages)
       IN  /\ Len(YieldedNames) <= Len(ref)
           /\ YieldedNames = SubSeq(ref, 1, Len(YieldedNames))
           /\ trav.state = "done" => YieldedNames = ref

\* C16 happens: a traversal ended on a catalog of two roots, the first
\* with a child, which it yielded before the second root.
TraversedBranching ==
    /\ trav.state = "done"
    /\ trav.set = cat.set
    /\ Len(trav.yielded) = 3
    /\ Len(cat.packagesList.packages) = 2
    /\ Len(cat.packagesList.packages[1].packages) = 1

\* C17: every entry a traversal yields is yielded while the catalog
\* still holds the Set the traversal took when it began to run: once an
\* update() or read() has replaced the Set, a suspended traversal yields
\* nothing more, so one traversal never yields entries of two loads.
OneGenerationPerTraversal ==
    Holding(trav) =>
       \A i \in 1 .. Len(trav.yielded) : trav.yielded[i].current = trav.set

\* C17 happens: a traversal that had yielded some entries was resumed
\* after a reload and ended without yielding the rest.
StoppedAfterReload ==
    /\ trav.state = "done"
    /\ trav.set # cat.set
    /\ Len(trav.yielded) > 0
    /\ Len(trav.yielded) < Len(trav.entries)

-----------------------------------------------------------------------------
(* Properties of the nodes *)

\* C19: on a child node the compression method is the first number of
\* its zipped value and the slice the other two; the decompressor is
\* none for method 0, raw inflate for method 8, and the query throws
\* "unsupported" for any other method.  On a root node the compression,
\* slice and decompressor queries all throw.
DecompressorByMethod ==
    cquery # NoQuery =>
       IF cquery.zipped = <<>>
       THEN /\ cquery.compression = Thrown("Not a child package", 0)
            /\ cquery.slice = Thrown("Not a child package", <<>>)
            /\ cquery.decompressor = Thrown("Not a child package", <<>>)
       ELSE /\ cquery.compression = Value(cquery.zipped[1])
            /\ cquery.slice = Value(<<cquery.zipped[2], cquery.zipped[3]>>)
            /\ cquery.zipped[1] = 0 => cquery.decompressor = Value(<<>>)
            /\ cquery.zipped[1] = 8 =>
                  cquery.decompressor = Value(<<InflateRaw>>)
            /\ cquery.zipped[1] \notin {0, 8} =>
                  /\ ~cquery.decompressor.ok
                  /\ cquery.decompressor.err = "Unsupported zipped compression"

\* C19 happens: the queries were made on a child with method 9.
QueriedMethodNine ==
    /\ cquery # NoQuery
    /\ Len(cquery.id) = 3
    /\ cquery.compression = Value(9)

-----------------------------------------------------------------------------
(* Properties of the persistence *)

\* The path of the receipt of the package called name.
ReceiptPath(name) == pathToPackageMeta(name, <<PACKAGE_FILE>>)

\* The file at path q holds a whole text.
Whole(f, q) == IsFile(f, q) /\ "torn" \notin DOMAIN f[q].data

\* C20: the catalog file and every receipt are replaced as a whole: at
\* any moment, also after the process died between two steps or inside
\* writeFile, each of them is missing, or holds a whole text that is the
\* one the running call found or the one it persists.  Only the temporary
\* sibling is ever written to.
AtomicPersistence ==
    /\ Exists(fs, packagesPath) =>
          /\ Whole(fs, packagesPath)
          /\ \/ Exists(fs0, packagesPath)
                   /\ fs[packagesPath] = fs0[packagesPath]
             \/ loaded # 0 /\ fs[packagesPath] = File(CatalogFile(loaded))
    /\ \A name \in Names :
          Exists(fs, ReceiptPath(name)) =>
             /\ Whole(fs, ReceiptPath(name))
             /\ \/ Exists(fs0, ReceiptPath(name))
                      /\ fs[ReceiptPath(name)] = fs0[ReceiptPath(name)]
                \/ /\ pkg # NoPackage
                   /\ pkg.name = name
                   /\ fs[ReceiptPath(name)] = File(Receipt(pkg))

\* C20 happens: the process died inside the writeFile of a receipt's
\* temporary sibling, and before that inside the writeFile of the
\* catalog's, while the catalog file held the text persisted earlier.
DiedInWrites ==
    /\ status = "crashed"
    /\ Whole(fs, packagesPath)
    /\ IsFile(fs, packagesPathTmp)
    /\ ~Whole(fs, packagesPathTmp)
    /\ \E name \in Names :
          LET tmp == pathToPackageMeta(name, <<PACKAGE_FILE \o TEMP_EXT>>)
          IN  IsFile(fs, tmp) /\ ~Whole(fs, tmp)

-----------------------------------------------------------------------------
(* Properties of the removals *)

\* The call of method m returned without throwing.
CallDone(m) == mcall.name = m /\ mpc = "returned" /\ mres.err = ""

\* The directories remove() is working with.
RemovedDir == pathToPackage(asName(loaded, mcall.arg), <<>>)

RemovedMeta == pathToPackageMeta(asName(loaded, mcall.arg), <<>>)

\* C22: remove(p) returns true exactly when the directory of p existed
\* when it was called.  Then the metadata directory goes first: while the
\* call runs, either nothing is deleted yet or exactly the metadata
\* directory is, so the receipt is never on disk beside a deleted payload;
\* when it returns, the package directory is gone with all it held and
\* nothing else is.  When it returns false the tree is as it was, and a
\* remove(p) that follows a remove(p) returns false.
RemoveIsOrderly ==
    /\ CallDone("remove") =>
          /\ mres.ret = "true" <=> Exists(fs0, RemovedDir)
          /\ mres.ret = "true" =>
                /\ ~Exists(fs, RemovedMeta)
                /\ ~Exists(fs, RemovedDir)
                /\ fs = RmRecursive(fs0, RemovedDir)
          /\ mres.ret = "false" => fs = fs0
          /\ again => mres.ret = "false"
    /\ mcall.name = "remove" /\ mpc = "rmMeta" => fs = fs0
    /\ mcall.name = "remove" /\ mpc = "rmDir" =>
          /\ fs = RmRecursive(fs0, RemovedMeta)
          /\ ~HasReceipt(fs, asName(loaded, mcall.arg))

\* remove() of an installed package has deleted the receipt and not yet
\* the payload.
RemovingInstalled ==
    /\ mcall.name = "remove"
    /\ mpc = "rmDir"
    /\ HasReceipt(fs0, asName(loaded, mcall.arg))
    /\ IsFile(fs, pathToPackage(asName(loaded, mcall.arg),
                                <<ReadReceipt(fs0, asName(loaded, mcall.arg)).file>>))

\* Every name a directory under the root path has in the model.
DirNames == {NameOrder[i] : i \in 1 .. Len(NameOrder)}

\* Directory x under the root of tree f is not dotted and no package of
\* catalog c has its name.
Stranger(f, c, x) == IsDir(f, <<x>>) /\ ~startsWithDot(x) /\ ~NameHits(c, x)

\* C23: when cleanup() has returned, no directory is left under the root
\* that holds a metadata subdirectory, is not dotted and does not have the
\* name of a package of the loaded catalog.
CleanupLeavesNoStranger ==
    CallDone("cleanup") =>
       \A x \in DirNames :
          ~(Stranger(fs, loaded, x) /\ Exists(fs, <<x, META_DIR>>))

\* C24: isObsolete(x) is true exactly when x is not dotted, no package of
\* the catalog is named x and x/<metaDir> exists under the root; obsolete()
\* lists exactly the directories for which that holds, in order; cleanup()
\* leaves a directory that is not in the catalog and has no metadata
\* subdirectory.
ObsoleteIsStrangerWithMeta ==
    /\ CallDone("isObsolete") =>
          (mres.ret = "true" <=>
              /\ ~startsWithDot(mcall.arg)
              /\ ~NameHits(loaded, mcall.arg)
              /\ Exists(fs, <<mcall.arg, META_DIR>>))
    /\ CallDone("obsolete") =>
          /\ \A i \in 1 .. Len(mres.ret) :
                /\ Stranger(fs, loaded, mres.ret[i])
                /\ Exists(fs, <<mres.ret[i], META_DIR>>)
          /\ \A x \in DirNames :
                Stranger(fs, loaded, x) /\ Exists(fs, <<x, META_DIR>>)
                   => \E i \in 1 .. Len(mres.ret) : mres.ret[i] = x
    /\ CallDone("cleanup") =>
          \A x \in DirNames :
             Stranger(fs0, loaded, x) /\ ~Exists(fs0, <<x, META_DIR>>)
                => IsDir(fs, <<x>>)

\* Position of a name in the order of sort().
Rank(x) == CHOOSE i \in 1 .. Len(NameOrder) : NameOrder[i] = x

RECURSIVE CleanupEvents(_)
\* The notifications that go with the result entries l, entry by entry.
CleanupEvents(l) ==
    IF l = <<>> THEN <<>>
    ELSE <<CleanupBefore(Head(l).package),
           CleanupAfter(Head(l).package, Head(l).removed)>>
            \o CleanupEvents(Tail(l))

\* C25: cleanup() returns one entry {package, removed} for each directory
\* that was obsolete when it was called, in ascending order of the names,
\* and has notified, entry by entry, one cleanup-before and then one
\* cleanup-after with the same package and the entry's removed; while it
\* runs, the notifications are those of the entries made so far, then the
\* cleanup-before of the removal in progress.  A cleanup() that follows a
\* cleanup() returns an empty list and notifies nothing.
CleanupReports ==
    /\ mcall.name = "cleanup" /\ mpc \in {"loop", "rmMeta", "rmDir"} =>
          events = CleanupEvents(mlist)
                      \o (IF mpc = "loop" THEN <<>>
                          ELSE <<CleanupBefore(Head(todo))>>)
    /\ CallDone("cleanup") =>
          /\ events = CleanupEvents(mres.ret)
          /\ \A i, j \in 1 .. Len(mres.ret) :
                i < j => Rank(mres.ret[i].package) < Rank(mres.ret[j].package)
          /\ \A i \in 1 .. Len(mres.ret) : mres.ret[i].removed
          /\ {mres.ret[i].package : i \in 1 .. Len(mres.ret)}
                = {x \in DirNames :
                      IsDir(fs0, <<x>>) /\ isObsolete(fs0, loaded, x)}
          /\ again => mres.ret = <<>> /\ events = <<>>

\* cleanup() removed two directories.
CleanedTwo == CallDone("cleanup") /\ Len(mres.ret) >= 2

-----------------------------------------------------------------------------
(* Properties of the queries *)

\* The catalog package the argument of the call identifies.
Asked == byUnique(loaded, mcall.arg)

\* Where the receipt of the package asked about is kept.
AskedReceipt == <<Asked.name, META_DIR, PACKAGE_FILE>>

\* A receipt file is there for the package asked about and it parses.
Readable == IsFile(fs, AskedReceipt) /\ "torn" \notin DOMAIN fs[AskedReceipt].data

\* C27: isCurrent(p) is true exactly when the receipt of p can be read and
\* has the name, file, size and sha256 of p in the loaded catalog, whatever
\* its source; isInstalled(p) is true exactly when the receipt can be read.
CurrentIsFourFields ==
    /\ CallDone("isCurrent") =>
          (mres.ret = "true" <=>
              /\ Readable
              /\ \A k \in {"name", "file", "size", "sha256"} :
                    fs[AskedReceipt].data[k] = Asked[k])
    /\ CallDone("isInstalled") => (mres.ret = "true" <=> Readable)
    /\ mcall.name \in {"isCurrent", "isInstalled"} => fs = fs0

\* isCurrent() answered true on a receipt whose source is not the
\* catalog's.
CurrentWithOtherSource ==
    /\ CallDone("isCurrent")
    /\ mres.ret = "true"
    /\ fs[AskedReceipt].data.source # Asked.source

-----------------------------------------------------------------------------
(* Properties of the SliceStream *)

RECURSIVE Flatten(_)
\* The chunks cs laid end to end.
Flatten(cs) == IF cs = <<>> THEN <<>> ELSE Head(cs) \o Flatten(Tail(cs))

\* The bytes of b at the 0-based offsets start .. start + size - 1 that b
\* has; all from start on when size is negative.
Range(b, start, size) ==
    [k \in 1 .. (IF size < 0 THEN Len(b) - Min(start, Len(b))
                 ELSE Min(start + size, Len(b)) - Min(start, Len(b)))
        |-> b[start + k]]

\* The part of the input that went into the stream.
Consumed == SubSeq(rootBytes, 1, Len(rootBytes) - Len(pinput))

\* What came out so far is the range of what went in, in chunks none of
\* which is empty.
SliceOutput ==
    /\ Flatten(pushed)
          = Range(Consumed, ptransforms[1].start, ptransforms[1].size)
    /\ \A i \in 1 .. Len(pushed) : pushed[i] # <<>>
    /\ ptransforms[1].transformed = Len(Consumed)

\* C29: however the input is cut into chunks, what a SliceStream(start,
\* size) has passed on is at every moment the range [start, start + size)
\* of what it was given, clipped to what it was given; nothing when size is
\* 0; all from start on when size is negative.  No chunk it passes on is
\* empty, and a chunk of input makes it pass on one chunk at most.
SliceIsRange ==
    []SliceOutput /\ [][Len(pushed') <= Len(pushed) + 1]_vars

\* A range inside the input came out in two chunks.
SlicedInTwo ==
    /\ ppc = "done"
    /\ Len(pushed) = 2
    /\ ptransforms[1].start > 0
    /\ ptransforms[1].size > 0
    /\ ptransforms[1].start + ptransforms[1].size <= Len(rootBytes)

-----------------------------------------------------------------------------
(* Properties of upgrade() and of install() beside other installs *)

\* The receipt of package x of the loaded catalog is on tree f, whatever
\* its source.
UpToDate(f, x) ==
    /\ IsFile(f, <<x, META_DIR, PACKAGE_FILE>>)
    /\ \A k \in {"name", "file", "size", "sha256"} :
          f[<<x, META_DIR, PACKAGE_FILE>>].data[k] = byName(loaded, x)[k]

\* l names a root, then a child of it, and so on down to package x.
RootToTarget(l, x) ==
    /\ l # <<>>
    /\ l[Len(l)] = x
    /\ byName(loaded, l[1]).parent = ""
    /\ \A i \in 2 .. Len(l) : byName(loaded, l[i]).parent = l[i - 1]

RECURSIVE RootOf(_)
\* The root of the tree package p of the loaded catalog is in.
RootOf(p) == IF p.parent = "" THEN p ELSE RootOf(byName(loaded, p.parent))

\* The entries of tree f outside the directory of package x.
Outside(f, x) == {q \in DOMAIN f : q = <<>> \/ q[1] # x}

\* While install(target) runs and when it has returned, everything outside
\* the directory of the target is as it was at the call, so no other
\* package has gained or lost a directory, a payload or a receipt, and each
\* is installed and current exactly if it was; every request went to the
\* source of the root of the target's tree.
KeepsToTarget ==
    /\ Outside(fs, pkg.name) = Outside(fs0, pkg.name)
    /\ \A q \in Outside(fs, pkg.name) : fs[q] = fs0[q]
    /\ \A x \in Names \ {pkg.name} :
          /\ HasReceipt(fs, x) <=> HasReceipt(fs0, x)
          /\ UpToDate(fs, x) <=> UpToDate(fs0, x)
    /\ \A i \in 1 .. Len(net) : net[i].url = RootOf(pkg).source

\* C30 as stated: install(target) touches the directory of the target
\* only, leaves what the other packages are, asks nothing but the source
\* of the root, and every install of a package that is not current makes
\* a request there.
InstallAlwaysFetches ==
    pkg.name # "" => KeepsToTarget /\ (status = "ok" => net # <<>>)

\* C30: install(target) touches the directory of the target only, leaves
\* what the other packages are and asks nothing but the source of the
\* root, also where an ancestor of the target is installed; an install
\* that succeeded made a request there unless the range it had to read is
\* empty, and then it made none.
InstallKeepsToTarget ==
    pkg.name # "" =>
       /\ KeepsToTarget
       /\ status = "ok" =>
             (net = <<>> <=> slice # <<>> /\ slice[2] = 0)

\* install(d) succeeded where the parent of d was installed and the root
\* was not.
InstalledBesideParent ==
    /\ pc = "returned"
    /\ status = "ok"
    /\ pkg.name = "d"
    /\ HasReceipt(fs0, "s")
    /\ ~Exists(fs, <<"r">>)
    /\ net # <<>>

-----------------------------------------------------------------------------
(* Properties of install(): the resolve step *)

\* The catalog package that has the string x as its name or as its digest.
KeyOwner(c, x) ==
    {i \in 1 .. Len(Catalogs[c]) :
        Catalogs[c][i].name = x \/ ToString(Catalogs[c][i].sha256) = x}

\* C31: install(id), with a catalog loaded, goes on with the catalog package
\* that has id as a key; when no package of the loaded catalog has it the
\* call has failed with the unknown-package error, no notification was
\* dispatched, no request made and the tree is the one the call found.
InstallResolves ==
    (mcall.name = "install" /\ err # "notLoaded") =>
        IF KeyOwner(loaded, mcall.arg) # {}
        THEN /\ err # "unknown"
             /\ \E i \in KeyOwner(loaded, mcall.arg) :
                   pkg = Catalogs[loaded][i]
        ELSE /\ pc = "returned"
             /\ status = "fail"
             /\ err = "unknown"
             /\ events = <<>>
             /\ net = <<>>
             /\ ret = <<>>
             /\ fs = fs0

\* install() was given the digest catalog 1 has for d while another catalog
\* is loaded, on a root path that holds installs.
UnknownRefused ==
    /\ mcall = [name |-> "install", arg |-> HashName]
    /\ err = "unknown"
    /\ loaded = 3
    /\ HasReceipt(fs, "d")

-----------------------------------------------------------------------------
(* Properties of install(): the range and the transform chain *)

\* The first node below the root with method 8, or the target if none has.
LastFolded(ch) ==
    LET S == {i \in 2 .. Len(ch) : ch[i].zipped[1] = 8}
    IN  IF S = {} THEN Len(ch) ELSE CHOOSE i \in S : \A j \in S : i <= j

RECURSIVE OffsetSum(_, _)
\* Sum of the offsets of the nodes 2 .. i.
OffsetSum(ch, i) ==
    IF i < 2 THEN 0 ELSE ch[i].zipped[2] + OffsetSum(ch, i - 1)

\* What a transform is from its construction on, whatever went through.
Shape(t) == [kind |-> t.kind, start |-> t.start, size |-> t.size]

Inflater == [kind |-> "inflate", start |-> 0, size |-> 0]

Filter(z) == [kind |-> "slice", start |-> z[2], size |-> z[3]]

RECURSIVE LaterNodes(_, _)
\* A filter and, for method 8, an inflater for each node from i on.
LaterNodes(ch, i) ==
    IF i > Len(ch) THEN <<>>
    ELSE <<Filter(ch[i].zipped)>>
            \o (IF ch[i].zipped[1] = 8 THEN <<Inflater>> ELSE <<>>)
            \o LaterNodes(ch, i + 1)

\* C32: for a root the range is null and there is no transform; else the
\* range is (sum of the offsets down to the first node with method 8, or
\* to the target; length of that node) and the transforms are that node's
\* inflater, if it has method 8, and then for each later node a filter
\* with its own offset and length and an inflater if it has method 8.
PlanIsFoldThenFilter ==
    ppc # "fetch" =>
        LET k == LastFolded(chain)
        IN  IF Len(chain) = 1
            THEN pslice = <<>> /\ ptransforms = <<>>
            ELSE /\ pslice = <<OffsetSum(chain, k), chain[k].zipped[3]>>
                 /\ [i \in 1 .. Len(ptransforms) |-> Shape(ptransforms[i])]
                       = (IF chain[k].zipped[1] = 8 THEN <<Inflater>>
                                                    ELSE <<>>)
                            \o LaterNodes(chain, k + 1)

\* A target with method 8 in a node with method 8 went through an inflater,
\* a filter and an inflater.
PlannedTwoInflaters ==
    /\ ppc = "done"
    /\ Len(chain) = 3
    /\ chain[2].zipped[1] = 8
    /\ chain[3].zipped[1] = 8
    /\ Len(ptransforms) = 3

-----------------------------------------------------------------------------
(* Properties of install(): the order of the commit *)

\* The awaits of the commit in the order of the source.
CommitOrder ==
    <<"dirsEnsure", "rmMeta", "rmOut", "renameTmp", "receiptRm",
      "receiptWrite", "receiptRename">>

Pos(step) == CHOOSE i \in 1 .. Len(CommitOrder) : CommitOrder[i] = step

\* Positions at which the old receipt is gone and the new one not yet there.
AfterReceiptRemoval ==
    {"rmOut", "renameTmp", "receiptRm", "receiptWrite", "receiptRename"}

\* Tree f without what is under path p.
Without(f, p) == Restrict(f, {q \in DOMAIN f : ~IsPrefix(p, q)})

\* The commit is entered with a verified extract only, and from the removal
\* of the receipt to the rename of the new one no receipt can be read.
CommitWindow ==
    /\ pc \in {CommitOrder[i] : i \in 1 .. Len(CommitOrder)} =>
          /\ bytesWritten = pkg.size
          /\ hash = pkg.sha256
          /\ Ev("download-after", pkg) = events[Len(events)]
    /\ pc \in {"dirsEnsure", "rmMeta", "rmOut", "renameTmp"} =>
          /\ IsFile(fs, tmpFile(pkg))
          /\ Sha256(fs[tmpFile(pkg)].data) = pkg.sha256
    /\ (pc \in AfterReceiptRemoval
          \/ (pc = "finally" /\ err \in AfterReceiptRemoval)) =>
          ~HasReceipt(fs, pkg.name)
    /\ pc \in {"receiptRm", "receiptWrite", "receiptRename"} =>
          /\ IsFile(fs, outFile(pkg))
          /\ Sha256(fs[outFile(pkg)].data) = pkg.sha256

\* One step of a commit: the steps follow each other in the order of the
\* source, a receipt comes to be readable only by the last of them, and
\* what follows it only removes the temp directory.
CommitStep ==
    /\ (pc' # pc /\ pc' \in {CommitOrder[i] : i \in 1 .. Len(CommitOrder)}) =>
          IF pc' = "dirsEnsure" THEN pc = "stream"
          ELSE /\ pc \in {CommitOrder[i] : i \in 1 .. Len(CommitOrder)}
               /\ Pos(pc') = Pos(pc) + 1
    /\ \A x \in Names :
          (~HasReceipt(fs, x) /\ HasReceipt(fs', x)) =>
              /\ pc = "receiptRename"
              /\ pc' = "finally"
              /\ x = pkg.name
              /\ ReadReceipt(fs', x) = Receipt(pkg)
    /\ (pc = "receiptRename" /\ pc' = "finally" /\ err' = "") =>
          HasReceipt(fs', pkg.name)
    /\ pc = "finally" => Without(fs', tmpDir(pkg)) = Without(fs, tmpDir(pkg))

\* C33: no step of the commit runs before the extract is verified; the
\* steps run in the order directories, receipt removal, payload removal,
\* rename of the temp file, receipt write (temp, then rename); the rename
\* of the receipt is the last change that makes installed state, and from
\* the receipt's removal up to it the package is not installed.
CommitIsOrdered == []CommitWindow /\ [][CommitStep]_vars

\* An install over an earlier install is between the rename of the payload
\* and the write of the receipt.
CommittingOverInstalled ==
    /\ pc = "receiptWrite"
    /\ HasReceipt(fs0, pkg.name)
    /\ ~HasReceipt(fs, pkg.name)
    /\ IsFile(fs, outFile(pkg))

-----------------------------------------------------------------------------
(* Properties of install(): the temp directory when the call completes *)

\* C34: when an install() that passed the current check has completed,
\* with success or with a failure at any step from the creation of the
\* temp directory on, the file handle is closed and the temp directory
\* R/<name>/<metaDir>/tmp does not exist.
TempGoneWhenDone ==
    (pc = "returned" /\ status \in {"ok", "fail"} /\ pkg.name # "") =>
        /\ ~fdOpen
        /\ ~Exists(fs, tmpDir(pkg))

-----------------------------------------------------------------------------
(* Properties of the catalog engine: the five indices *)

\* The Map behind each single-key lookup, by the field it is keyed on.
IndexOf(f) ==
    IF f = "name" THEN "byName"
    ELSE IF f = "sha256" THEN "bySha256"
    ELSE IF f = "sha1" THEN "bySha1"
    ELSE "byMd5"

\* What a lookup in Map m of object c returns for a key the Map has: the
\* entry of the current traversal set the Map's value refers to, or a
\* node that is not of that set.
Get(c, m, k) ==
    LET S == {i \in 1 .. Len(c.packages) : c.packages[i].id = c[m][k]}
    IN  IF S = {} THEN [stale |-> c[m][k]]
        ELSE c.packages[CHOOSE i \in S : TRUE]

\* C35: whatever loads succeeded and failed, each entry of the current
\* traversal set is what byName, bySha256, bySha1 and byMd5 return for its
\* name and digests and what byUnique returns for each of the four; a
\* lookup that returns an entry returns one of the current traversal set
\* that has the key; every other key gives null.
IndexConsistent ==
    LET ps == cat.packages
    IN  /\ \A i \in 1 .. Len(ps) :
           \A f \in {UniqueFields[j] : j \in 1 .. Len(UniqueFields)} :
              /\ ps[i][f] \in DOMAIN cat[IndexOf(f)]
              /\ Get(cat, IndexOf(f), ps[i][f]) = ps[i]
              /\ ps[i][f] \in DOMAIN cat.byUnique
              /\ Get(cat, "byUnique", ps[i][f]) = ps[i]
        /\ \A f \in {UniqueFields[j] : j \in 1 .. Len(UniqueFields)} :
              DOMAIN cat[IndexOf(f)] = {ps[i][f] : i \in 1 .. Len(ps)}
        /\ DOMAIN cat.byUnique =
              {ps[i][UniqueFields[j]] :
                  i \in 1 .. Len(ps), j \in 1 .. Len(UniqueFields)}
        /\ ~cat.loaded => ps = <<>>

\* A third load failed on an object that holds the entries of its second.
IndexedSecondLoad ==
    /\ LoadFailed
    /\ cat.loaded
    /\ cat.set = 2
    /\ Len(cat.packages) >= 2
    /\ cat.packages[2].parent # <<>>

-----------------------------------------------------------------------------
(* Properties of Manager.update() *)

\* The catalog the catalog file of tree f holds: -1 when there is no file,
\* 0 for a text that does not load.
CatalogOf(f) ==
    IF IsFile(f, packagesPath) THEN f[packagesPath].data.id ELSE -1

\* An update() that returned left the catalog it took in the file, and one
\* that threw left the tree as it found it.
UpdateOutcome ==
    /\ (pc = "returned" /\ status = "updated") =>
          /\ loaded # 0
          /\ input = <<loaded>>
          /\ CatalogOf(fs) = loaded
    /\ (pc = "returned" /\ status = "fail") =>
          /\ fs = fs0
          /\ err \in {"transport", "status", "validate"}
          /\ loaded \in {0, CatalogOf(fs0)}

\* One step of update(): the catalog file changes only by the rename that
\* ends Packages.write, to the text that was validated and put in memory;
\* a fetch that ends the call, a status other than 200 and a text that
\* does not validate leave file and memory without the rejected text; a
\* text that validates is taken whatever the catalog file held.
UpdateStep ==
    /\ CatalogOf(fs') # CatalogOf(fs) =>
          /\ pc = "uRename"
          /\ pc' = "returned"
          /\ loaded \in CatalogIds
          /\ input = <<loaded>>
          /\ CatalogOf(fs') = loaded
    /\ (Exists(fs', packagesPathTmp) /\ fs' # fs) =>
          /\ pc = "uWriteTmp"
          /\ loaded \in CatalogIds
          /\ fs'[packagesPathTmp] = File(CatalogFile(loaded))
    /\ (pc = "uFetch" /\ pc' = "uApply") =>
          net'[Len(net')].status = 200
    /\ (pc = "uFetch" /\ net'[Len(net')].result = "response"
           /\ net'[Len(net')].status # 200) =>
          pc' = "returned" /\ status' = "fail"
    /\ (pc = "uFetch" /\ pc' = "returned") =>
          /\ status' = "fail"
          /\ loaded' = loaded
          /\ fs' = fs0
    /\ pc = "uApply" =>
          IF input[1] \in CatalogIds
          THEN pc' = "uMkdir" /\ loaded' = input[1] /\ fs' = fs
          ELSE /\ pc' = "returned"
               /\ status' = "fail"
               /\ fs' = fs0
               /\ loaded' = IF loaded # 0 THEN loaded
                            ELSE IF CatalogOf(fs) > 0 THEN CatalogOf(fs)
                            ELSE 0

\* C36: update() writes the catalog file only after the fetched text was
\* validated and put in memory; when the fetch fails, the status is not
\* 200 or the text does not validate, update() throws, the catalog file
\* is as before and memory does not hold the rejected text; a persisted
\* catalog that does not load does not make update() throw.
UpdatePersistsValidated == []UpdateOutcome /\ [][UpdateStep]_vars

\* update() returned on a root path whose catalog file did not load.
UpdatedOverInvalid ==
    /\ pc = "returned"
    /\ status = "updated"
    /\ CatalogOf(fs0) = 0
    /\ CatalogOf(fs) \in CatalogIds

-----------------------------------------------------------------------------
(* Properties of cleanup(): what it must not touch *)

\* Directory, receipt and payload that package x has in f0 are in f.
Kept(f0, f, x) ==
    /\ IsDir(f0, <<x>>) => IsDir(f, <<x>>)
    /\ HasReceipt(f0, x) =>
          /\ HasReceipt(f, x)
          /\ ReadReceipt(f, x) = ReadReceipt(f0, x)
          /\ LET out == pathToPackage(x, <<ReadReceipt(f0, x).file>>)
             IN  Exists(f0, out) => Exists(f, out) /\ f[out] = f0[out]

\* C37: whatever the root path holds, directories named like a digest of
\* a catalog package included, cleanup() removes neither the directory nor
\* the payload nor the receipt of a package whose name is in the loaded
\* catalog.
CleanupKeepsCatalogPackages ==
    (mcall.name = "cleanup" /\ loaded # 0) =>
        \A x \in Names : NameHits(loaded, x) => Kept(fs0, fs, x)

-----------------------------------------------------------------------------
(* Properties of outdated() and upgrade(): what counts as outdated *)

\* C38: every package outdated() returns to upgrade() had a receipt when
\* upgrade() was called, so a catalog package whose directory holds no
\* receipt is not listed and not installed by upgrade().
OutdatedWereInstalled ==
    (mcall.name = "upgrade" /\ mpc = "loop" /\ mlist = <<>>) =>
        \A i \in 1 .. Len(todo) :
           /\ HasReceipt(fs, todo[i])
           /\ ~isCurrent(fs, byName(loaded, todo[i]))

-----------------------------------------------------------------------------
(* Properties of install(): what an earlier install leaves behind *)

\* C40: when install() has succeeded over an install whose receipt names
\* another file, the package directory holds the new payload and the new
\* receipt and not the payload of the earlier install.
NoStalePayload ==
    (pc = "returned" /\ status = "ok" /\ HasReceipt(fs0, pkg.name)
        /\ ReadReceipt(fs0, pkg.name).file # pkg.file) =>
        /\ IsFile(fs, outFile(pkg))
        /\ HasReceipt(fs, pkg.name)
        /\ ReadReceipt(fs, pkg.name) = Receipt(pkg)
        /\ ~Exists(fs, pathToPackage(pkg.name,
                                     <<ReadReceipt(fs0, pkg.name).file>>))

-----------------------------------------------------------------------------
(* Two install() calls for one package in flight on one Manager *)

\* install() is an async function: between two of its awaits any step of
\* another call on the same Manager may run.  Both calls compute the same
\* tmpDir, tmpFile, outFile and metaFile.  The WriterStream writes through
\* the handle open() gave, so its bytes go to the file that handle made,
\* whatever path names it by then, and also when no path names it any more.

\* The package both calls ask for: d of catalog 3, a root resource, so no
\* range and no transform stands between the body and the temp file.
DuoPkg == byName(3, "d")

Callers == {1, 2}

Other(i) == IF i = 1 THEN 2 ELSE 1

\* The locals of a call that has not been made yet;
\* met: the call ran its steps while the other call was running its own.
IdleCall ==
    [pc |-> "idle", fd |-> 0, input |-> <<>>, bytesWritten |-> 0,
     hash |-> 0, err |-> "", status |-> "none", met |-> FALSE]

InFlight(c) == c.pc \notin {"idle", "returned"}

\* The call moves on to its next await.
Goes(i, to) == calls' = [calls EXCEPT ![i].pc = to]

\* A throw inside the try block of call i: on to its finally block.
Throws(i, step) ==
    calls' = [calls EXCEPT ![i].pc = "finally", ![i].err = step]

\* install(name) is called: ensureLoaded, byUnique, isCurrent and
\* install-current or install-before, all before the first await on disk.
DuoStart(i) ==
    /\ calls[i].pc = "idle"
    /\ EnsureLoaded(fs, loaded) # 0
    /\ calls' =
          IF isCurrent(fs, DuoPkg)
          THEN [calls EXCEPT ![i].pc = "returned", ![i].status = "ok"]
          ELSE [j \in Callers |->
                  IF j = i
                  THEN [calls[i] EXCEPT !.pc = "rmTmp",
                                        !.status = "running",
                                        !.met = InFlight(calls[Other(i)])]
                  ELSE [calls[j] EXCEPT !.met = InFlight(calls[j])]]
    /\ UNCHANGED <<fs, inodes>>

\* await rm(tmpDir, {recursive: true, force: true})
DuoRmTmp(i) ==
    /\ calls[i].pc = "rmTmp"
    /\ fs' = RmRecursive(fs, tmpDir(DuoPkg))
    /\ Goes(i, "mkdirTmp")
    /\ UNCHANGED inodes

\* await mkdir(tmpDir, {recursive: true})
DuoMkdirTmp(i) ==
    /\ calls[i].pc = "mkdirTmp"
    /\ MkdirOk(fs, tmpDir(DuoPkg))
    /\ fs' = Mkdir(fs, tmpDir(DuoPkg))
    /\ Goes(i, "openTmp")
    /\ UNCHANGED inodes

\* const fd = await open(tmpFile, 'wx'): a new empty file, or EEXIST when
\* the other call's temp file is there, or ENOENT when the other call took
\* the directory away; the rejection leaves install() before its try block.
DuoOpenTmp(i) ==
    /\ calls[i].pc = "openTmp"
    /\ IF CreateOk(fs, tmpFile(DuoPkg))
       THEN /\ fs' = Create(fs, tmpFile(DuoPkg), i)
            /\ inodes' = [inodes EXCEPT ![i] = <<>>]
            /\ calls' = [calls EXCEPT ![i].pc = "fetch", ![i].fd = i]
       ELSE /\ calls' = [calls EXCEPT ![i].pc = "returned",
                                      ![i].err = "openTmp",
                                      ![i].status = "fail"]
            /\ UNCHANGED <<fs, inodes>>

\* The request of the root resource is answered with a body.
DuoFetch(i) ==
    /\ calls[i].pc = "fetch"
    /\ \E body \in Bodies(HonestBody(<<DuoPkg>>, <<>>)) :
          calls' = [calls EXCEPT ![i].pc = "stream", ![i].input = body]
    /\ UNCHANGED <<fs, inodes>>

\* One chunk of the body is hashed and written through the handle.
DuoChunk(i) ==
    /\ calls[i].pc = "stream"
    /\ calls[i].input # <<>>
    /\ \E n \in ChunkSizes(Len(calls[i].input)) :
          LET c   == calls[i]
              out == Pipe(<<>>, SubSeq(c.input, 1, n)).out
          IN  /\ calls' =
                    [calls EXCEPT
                       ![i].input = SubSeq(c.input, n + 1, Len(c.input)),
                       ![i].hash = HashUpdate(c.hash, out),
                       ![i].bytesWritten = c.bytesWritten + Len(out)]
              /\ inodes' = [inodes EXCEPT ![c.fd] = @ \o out]
    /\ UNCHANGED fs

\* Variant: the extract is not compared with the package record.
DuoStreamEnd_Unverified(i) ==
    /\ calls[i].pc = "stream"
    /\ calls[i].input = <<>>
    /\ Goes(i, "dirsEnsure")
    /\ UNCHANGED <<fs, inodes>>

\* The body ended: output.bytesWritten and the digest are compared with
\* the package record.
DuoStreamEnd(i) ==
    /\ calls[i].pc = "stream"
    /\ calls[i].input = <<>>
    /\ LET e == VerifyError(calls[i].bytesWritten, calls[i].hash, DuoPkg)
       IN  IF e # "" THEN Throws(i, e) ELSE Goes(i, "dirsEnsure")
    /\ UNCHANGED <<fs, inodes>>

\* await this._packageDirsEnsure(pkg)
DuoDirsEnsure(i) ==
    /\ calls[i].pc = "dirsEnsure"
    /\ MkdirOk(fs, pathToPackageMeta(DuoPkg.name, <<>>))
    /\ fs' = Mkdir(Mkdir(fs, pathToPackage(DuoPkg.name, <<>>)),
                   pathToPackageMeta(DuoPkg.name, <<>>))
    /\ Goes(i, "rmMeta")
    /\ UNCHANGED inodes

\* await rm(metaFile, {force: true})
DuoRmMeta(i) ==
    /\ calls[i].pc = "rmMeta"
    /\ RmForceOk(fs, metaFile(DuoPkg))
    /\ fs' = RmForce(fs, metaFile(DuoPkg))
    /\ Goes(i, "rmOut")
    /\ UNCHANGED inodes

\* await rm(outFile, {force: true})
DuoRmOut(i) ==
    /\ calls[i].pc = "rmOut"
    /\ RmForceOk(fs, outFile(DuoPkg))
    /\ fs' = RmForce(fs, outFile(DuoPkg))
    /\ Goes(i, "renameTmp")
    /\ UNCHANGED inodes

\* await rename(tmpFile, outFile): the file the path names now is moved,
\* whichever call made it; ENOENT when no file is there.
DuoRenameTmp(i) ==
    /\ calls[i].pc = "renameTmp"
    /\ IF RenameOk(fs, tmpFile(DuoPkg), outFile(DuoPkg))
       THEN /\ fs' = Rename(fs, tmpFile(DuoPkg), outFile(DuoPkg))
            /\ Goes(i, "receiptRm")
       ELSE /\ fs' = fs
            /\ Throws(i, "renameTmp")
    /\ UNCHANGED inodes

\* _packageMetaReceiptWrite: await rm(pkgfTmp, {force: true})
DuoReceiptRm(i) ==
    /\ calls[i].pc = "receiptRm"
    /\ RmForceOk(fs, metaFileTmp(DuoPkg))
    /\ fs' = RmForce(fs, metaFileTmp(DuoPkg))
    /\ Goes(i, "receiptWrite")
    /\ UNCHANGED inodes

\* _packageMetaReceiptWrite: await writeFile(pkgfTmp, ..., {flag: 'wx'});
\* EEXIST when the other call's receipt draft is there.
DuoReceiptWrite(i) ==
    /\ calls[i].pc = "receiptWrite"
    /\ IF CreateOk(fs, metaFileTmp(DuoPkg))
       THEN /\ fs' = Create(fs, metaFileTmp(DuoPkg), Receipt(DuoPkg))
            /\ Goes(i, "receiptRename")
       ELSE /\ fs' = fs
            /\ Throws(i, "receiptWrite")
    /\ UNCHANGED inodes

\* _packageMetaReceiptWrite: await rename(pkgfTmp, pkgf); ENOENT when the
\* other call moved or removed the draft.
DuoReceiptRename(i) ==
    /\ calls[i].pc = "receiptRename"
    /\ IF RenameOk(fs, metaFileTmp(DuoPkg), metaFile(DuoPkg))
       THEN /\ fs' = Rename(fs, metaFileTmp(DuoPkg), metaFile(DuoPkg))
            /\ Goes(i, "finally")
       ELSE /\ fs' = fs
            /\ Throws(i, "receiptRename")
    /\ UNCHANGED inodes

\* The transport rejects, the body stream breaks off, or a step inside
\* the try block meets an I/O error.
DuoStepFails(i) ==
    /\ calls[i].pc \in TrySteps \cup {"fetch"}
    /\ Throws(i, calls[i].pc)
    /\ UNCHANGED <<fs, inodes>>

\* finally: await fd.close(); await rm(tmpDir, {recursive, force}); then
\* install-after and the return, or the rethrow.
DuoFinally(i) ==
    /\ calls[i].pc = "finally"
    /\ fs' = RmRecursive(fs, tmpDir(DuoPkg))
    /\ calls' = [calls EXCEPT
                   ![i].pc = "returned",
                   ![i].fd = 0,
                   ![i].status = IF calls[i].err = "" THEN "ok" ELSE "fail"]
    /\ UNCHANGED inodes

\* A Manager with catalog 3 loaded on a root path never used, and no bytes
\* in the files the two calls are going to open.
InitTwo ==
    /\ fs = [q \in {<<>>} |-> Dir]
    /\ fs0 = fs
    /\ loaded = 3
    /\ events = <<>>
    /\ InstallRestIdle
    /\ PipeIdle
    /\ CatIdle
    /\ LocalIdle
    /\ calls = [i \in Callers |-> IdleCall]
    /\ inodes = [i \in Callers |-> <<>>]

NextTwo ==
    (\/ \E i \in Callers : DuoStart(i)
     \/ \E i \in Callers : DuoRmTmp(i)
     \/ \E i \in Callers : DuoMkdirTmp(i)
     \/ \E i \in Callers : DuoOpenTmp(i)
     \/ \E i \in Callers : DuoFetch(i)
     \/ \E i \in Callers : DuoChunk(i)
     \/ \E i \in Callers : DuoStreamEnd(i)
     \/ \E i \in Callers : DuoDirsEnsure(i)
     \/ \E i \in Callers : DuoRmMeta(i)
     \/ \E i \in Callers : DuoRmOut(i)
     \/ \E i \in Callers : DuoRenameTmp(i)
     \/ \E i \in Callers : DuoReceiptRm(i)
     \/ \E i \in Callers : DuoReceiptWrite(i)
     \/ \E i \in Callers : DuoReceiptRename(i)
     \/ \E i \in Callers : DuoStepFails(i)
     \/ \E i \in Callers : DuoFinally(i))
       /\ UNCHANGED <<loaded, events, fs0>> /\ UNCHANGED installRest
       /\ UNCHANGED pipeVars /\ UNCHANGED catVars /\ UNCHANGED localVars

SpecTwo == InitTwo /\ [][NextTwo]_vars

\* The bytes of the payload file of the package, <<>> when there is none.
DuoPayload ==
    IF IsFile(fs, outFile(DuoPkg)) THEN inodes[fs[outFile(DuoPkg)].data]
    ELSE <<>>

\* The payload file exists and holds the bytes the receipt describes.
DuoPayloadWhole ==
    /\ IsFile(fs, outFile(DuoPkg))
    /\ Len(DuoPayload) = DuoPkg.size
    /\ Sha256(DuoPayload) = DuoPkg.sha256

-----------------------------------------------------------------------------
(* Properties of two install() calls in flight for one package *)

\* Call i went through its whole try block with an extract of the right
\* size and digest.
Committed(i) ==
    /\ calls[i].pc \in {"finally", "returned"}
    /\ calls[i].err = ""
    /\ VerifyError(calls[i].bytesWritten, calls[i].hash, DuoPkg) = ""

\* The steps of the two calls were interleaved.
Overlapped == \E i \in Callers : calls[i].met

\* C39 as stated: under every interleaving of two install() calls for one
\* package, whenever the receipt of the package is there, its payload file
\* is there too, complete and with the digest the receipt names.
ReceiptNeverBesideBrokenPayload ==
    HasReceipt(fs, DuoPkg.name) => DuoPayloadWhole

\* C39: two install() calls for one package are not kept apart.  Whenever
\* the receipt of the package is there, it is the receipt of the catalog's
\* record and one of the calls went through its whole commit after its own
\* extract passed the size and digest comparison; the payload file beside
\* it is there, complete and of the right digest, when the steps of the two
\* calls were not interleaved.
ReceiptAfterVerifiedCall ==
    HasReceipt(fs, DuoPkg.name) =>
       /\ ReadReceipt(fs, DuoPkg.name) = Receipt(DuoPkg)
       /\ \E i \in Callers : Committed(i)
       /\ ~Overlapped => DuoPayloadWhole

\* Two interleaved calls left the receipt beside a payload file that is
\* missing or holds other bytes than the receipt describes, and both have
\* returned.
ReceiptBesideBrokenPayload ==
    /\ HasReceipt(fs, DuoPkg.name)
    /\ Overlapped
    /\ ~DuoPayloadWhole
    /\ \A i \in Callers : calls[i].pc = "returned"

====
